---- MODULE Spec2Model ----
(***************************************************************************)
(* Verification model of the Jira dashboard: the proxy's paginated search, *)
(* its resource routes and its health probe (server/index.js), the         *)
(* text <-> ADF conversion, the comment classification and the retrying    *)
(* API calls of the browser module (src/api/jira.js), the label derivation *)
(* used by the proxy and by the ticket creation form, and the screen       *)
(* selection of the App component.                                         *)
(*                                                                         *)
(* JavaScript strings are modelled as sequences of one-character strings,  *)
(* so that split, trim, toLowerCase, includes and replace are computed     *)
(* character by character.                                                 *)
(***************************************************************************)

EXTENDS Integers, Sequences, FiniteSets, TLC

VARIABLES
    \* ---- GET /api/tickets and searchIssues (server/index.js) ----
    pc,             \* position of the route handler
    fetchAll,       \* searchIssues parameter
    allIssues,      \* accumulator of searchIssues
    nextPageToken,  \* token carried by the request in flight / to be sent
    isLast,         \* loop flag of searchIssues
    requests,       \* upstream requests sent so far (the token each carried)
    responses,      \* upstream answers received so far
    failure,        \* the Error thrown by jiraRequest, if any
    resStatus,      \* HTTP status of the route's answer (0: not answered)
    resBody,        \* JSON body of the route's answer
    \* ---- text <-> ADF conversion (src/api/jira.js, server/index.js) ----
    adfPc,          \* which conversion has been applied
    text,           \* the plain text given to the conversion
    adfDocument,    \* the document built from it
    plainText,      \* the text extracted from the document
    \* ---- comment classification (src/api/jira.js) ----
    commentPc,      \* whether the comment has been classified
    comment,        \* the comment given to processComments
    isInternal,     \* isInternalComment(comment)
    commentType,    \* getCommentType(comment)
    \* ---- requester labels (server/index.js, CreateIssueForm.js) ----
    labelDone,      \* which of the label derivations have run
    email,          \* the user's email
    label,          \* emailToLabel(email) of the proxy
    userLabels,     \* labels the creation form attaches to a new ticket
    labelReq,       \* the req- label the user's ticket query searches for
    \* ---- resource routes and health probe of the proxy (server/index.js) ----
    proxyPc,        \* position of the route handler
    proxyRoute,     \* the route that was called
    reqBody,        \* req.body of the call
    credentials,    \* which of the service email and API token are configured
    upstreamCalls,  \* number of fetch calls made to the upstream
    upstreamAnswer, \* what the upstream answered to the call in flight
    proxyStatus,    \* HTTP status of the route's answer (0: not answered)
    proxyBody,      \* JSON body of the route's answer
    \* ---- browser API calls with retry (src/api/jira.js) ----
    retryPc,        \* position of apiRequest / fetchWithRetry
    apiCall,        \* endpoint and method of the browser API call
    retries,        \* the retries parameter of the running fetchWithRetry
    attempts,       \* number of fetch calls made for the API call
    delays,         \* the delays waited between attempts (ms)
    fetchFailures,  \* how each failed attempt failed
    outcome,        \* what the caller of apiRequest receives
    delivered,      \* number of requests of the API call that reached the proxy
    \* ---- the App component (App.js) ----
    appPc,          \* whether the App is mounted
    authLoading,    \* loading of useAuth()
    authUser,       \* user of useAuth()
    loading,        \* the App's ticket-loading state
    appError,       \* the App's error state
    showCreateForm, \* the App's create-form state
    selectedTicket, \* the ticket whose details are open (0: none)
    pendingLoads,   \* number of loadData calls awaiting their fetches
    effectEmail,    \* authUser?.email at the last run of the effect
    screen,         \* the screen the App rendered last
    allTickets,     \* the ticket list of the App
    lastLoad,       \* how the most recently completed loadData ended
    \* ---- issue details (src/src/components/IssueDetails.js) ----
    ticketProp,     \* IssueDetails: the ticket prop (key of App's selectedTicket)
    detailedTicket, \* useState(ticket): the ticket displayed
    detailLoading,  \* IssueDetails loading flag
    detailError,    \* IssueDetails error message
    detailLoads,    \* loadTicketDetails calls: the key each closed over, its state
    awaitedLoad,    \* index of the load confirmResolution awaits, 0 when none
    resolvePc,      \* position of confirmResolution
    resolving,      \* resolving flag
    resolutionComment,\* text of the resolution modal
    showResolveModal,\* whether the resolution modal is open
    resolveCalls,   \* upstream calls made by confirmResolution, in order
    ticketResolved, \* Jira: the resolve transition was executed
    resolutionPosted,\* Jira: the resolution comment was added
    alerted,        \* last alert() message
    \* ---- formatRelativeDate (src/src/api/jira.js) ----
    relPc,          \* position of the formatRelativeDate call
    dateInput,      \* the date given, as its distance from now
    relativeDate,   \* the text returned
    \* ---- dashboard (src/src/components/Dashboard.js) ----
    dashPc,         \* whether the Dashboard is mounted
    dashboardTickets,\* the allTickets prop of the Dashboard
    filter,         \* the filter selected
    searchTerm,     \* the text of the search box
    displayedTickets\* the tickets listed

searchVars == <<pc, fetchAll, allIssues, nextPageToken, isLast, requests,
                responses, failure, resStatus, resBody>>

adfVars == <<adfPc, text, adfDocument, plainText>>

commentVars == <<commentPc, comment, isInternal, commentType>>

labelVars == <<labelDone, email, label, userLabels, labelReq>>

proxyVars == <<proxyPc, proxyRoute, reqBody, credentials, upstreamCalls,
               upstreamAnswer, proxyStatus, proxyBody>>

retryVars == <<retryPc, apiCall, retries, attempts, delays, fetchFailures,
               outcome, delivered>>

appVars == <<appPc, authLoading, authUser, loading, appError, showCreateForm, selectedTicket, pendingLoads, effectEmail, screen, allTickets, lastLoad>>

detailVars == <<ticketProp, detailedTicket, detailLoading, detailError, detailLoads, awaitedLoad, resolvePc, resolving, resolutionComment, showResolveModal, resolveCalls, ticketResolved, resolutionPosted, alerted>>

relativeVars == <<relPc, dateInput, relativeDate>>

dashboardVars == <<dashPc, dashboardTickets, filter, searchTerm, displayedTickets>>

vars == <<searchVars, adfVars, commentVars, labelVars, proxyVars, retryVars, appVars, detailVars, relativeVars, dashboardVars>>

\* what each part of the model leaves alone
nonSearchVars == <<adfVars, commentVars, labelVars, proxyVars, retryVars, appVars, detailVars, relativeVars, dashboardVars>>
nonAdfVars == <<searchVars, commentVars, labelVars, proxyVars, retryVars, appVars, detailVars, relativeVars, dashboardVars>>
nonCommentVars == <<searchVars, adfVars, labelVars, proxyVars, retryVars, appVars, detailVars, relativeVars, dashboardVars>>
nonLabelVars == <<searchVars, adfVars, commentVars, proxyVars, retryVars, appVars, detailVars, relativeVars, dashboardVars>>
nonProxyVars == <<searchVars, adfVars, commentVars, labelVars, retryVars, appVars, detailVars, relativeVars, dashboardVars>>
nonRetryVars == <<searchVars, adfVars, commentVars, labelVars, proxyVars, appVars, detailVars, relativeVars, dashboardVars>>
nonAppVars == <<searchVars, adfVars, commentVars, labelVars, proxyVars, retryVars, detailVars, relativeVars, dashboardVars>>
nonDetailVars == <<searchVars, adfVars, commentVars, labelVars, proxyVars, retryVars, appVars, relativeVars, dashboardVars>>
nonRelativeVars == <<searchVars, adfVars, commentVars, labelVars, proxyVars, retryVars, appVars, detailVars, dashboardVars>>
nonDashboardVars == <<searchVars, adfVars, commentVars, labelVars, proxyVars, retryVars, appVars, detailVars, relativeVars>>

----------------------------------------------------------------------------
(* Bounds of the model *)

\* most upstream requests one search may issue in the model
MaxRequests == 4
\* most issues the upstream puts in one page in the model
MaxPageLen == 2
\* longest plain text given to the conversions in the model
MaxTextLen == 5
\* longest email given to the label derivations in the model
MaxEmailLen == 3
\* most loadData calls of the App that await their fetches at one time
MaxPendingLoads == 2

----------------------------------------------------------------------------
(* Values *)

\* let nextPageToken = undefined: no page token
NoToken == 0

\* the opaque token the upstream hands out with its k-th answer
TokenOf(k) == k

\* error.status of an Error that carries none
NoStatus == 0

\* the route has not answered yet
NoBody == [kind |-> "none"]

\* a 2xx answer with an empty body, for which jiraRequest returns null
NullData == [kind |-> "null"]

\* non-2xx statuses the upstream answers with in the model
UpstreamErrorStatuses == {400, 503}

\* a thrown Error: message and (for upstream HTTP errors) status
HttpError(s) == [kind |-> "http", message |-> "Jira API Error", status |-> s]
TransportError == [kind |-> "transport", message |-> "fetch failed", status |-> NoStatus]
NoError == [kind |-> "none", message |-> "", status |-> NoStatus]

\* a comment that is undefined or null
NoComment == [present |-> FALSE, jsdPublic |-> TRUE]

\* JavaScript truthiness of a page token
Truthy(v) == v # NoToken

RECURSIVE SumLen(_)
SumLen(rs) ==
    IF rs = <<>> THEN 0
    ELSE (IF rs[1].kind = "page" THEN Len(rs[1].issues) ELSE 0)
         + SumLen(Tail(rs))

\* the issues the upstream has served so far are numbered 1, 2, ...; a new
\* page of n issues carries the next n numbers
FreshPage(n) == [i \in 1..n |-> SumLen(responses) + i]

\* the answers the upstream may give to the request in flight
UpstreamPages ==
    { [kind |-> "page", issues |-> FreshPage(n), isLast |-> l, nextPageToken |-> t] :
        n \in 0..MaxPageLen, l \in BOOLEAN,
        t \in {NoToken, TokenOf(Len(requests))} }


----------------------------------------------------------------------------
(* JavaScript strings and the ADF documents built from them *)

NL == "\n"

\* a missing value (undefined or null) where a string is expected
Missing == <<"undefined">>

\* white space removed by String.prototype.trim
Whitespace == {" ", NL}

\* !text is false
TextTruthy(t) == t # Missing /\ t # <<>>

\* a property that is missing from a JSON object (undefined)
Undefined == "undefined"

\* !v is false for a string-valued property
StringTruthy(v) == v # Undefined /\ v # ""

\* req.body before a route is called
NoRequestBody ==
    [hasFields |-> FALSE, project |-> Undefined, issuetype |-> Undefined,
     summary |-> Missing, body |-> Undefined, hasTransition |-> FALSE,
     transitionId |-> Undefined]

\* no upstream call has been answered
NoAnswer == [kind |-> "none"]

\* no browser API call has been made
NoApiCall == [endpoint |-> "", method |-> ""]

\* apiRequest has not returned or thrown
NoOutcome == [kind |-> "none", name |-> "", status |-> 0]

\* useAuth() gives no user
NoUser == [present |-> FALSE, email |-> "undefined"]

\* useState(null) of the App's error
NoAppError == "null"

\* formatRelativeDate: no input, and no result yet
NoDate == [kind |-> "undefined", sec |-> 0, ms |-> 0]
NoRelativeDate == [phrase |-> "undefined", count |-> 0, unit |-> ""]

\* IssueDetails: no ticket, and error state null
NoTicket == [key |-> "", detailed |-> FALSE]
NoDetailError == "null"

\* p.trim() is a non-empty string
TrimTruthy(p) == \E i \in 1..Len(p) : p[i] \notin Whitespace

\* s.split(sep) for a non-empty literal separator
RECURSIVE SplitFrom(_, _, _, _)
SplitFrom(s, sep, i, cur) ==
    IF i > Len(s) THEN <<cur>>
    ELSE IF i + Len(sep) - 1 <= Len(s) /\ SubSeq(s, i, i + Len(sep) - 1) = sep
         THEN <<cur>> \o SplitFrom(s, sep, i + Len(sep), <<>>)
         ELSE SplitFrom(s, sep, i + 1, Append(cur, s[i]))

Split(s, sep) == SplitFrom(s, sep, 1, <<>>)

\* index of the last newline of the run of newlines that starts at i
RECURSIVE RunEnd(_, _)
RunEnd(s, i) == IF i < Len(s) /\ s[i + 1] = NL THEN RunEnd(s, i + 1) ELSE i

\* s.split(/\n\n+/)
RECURSIVE SplitBlankLinesFrom(_, _, _)
SplitBlankLinesFrom(s, i, cur) ==
    IF i > Len(s) THEN <<cur>>
    ELSE IF s[i] = NL /\ i < Len(s) /\ s[i + 1] = NL
         THEN <<cur>> \o SplitBlankLinesFrom(s, RunEnd(s, i) + 1, <<>>)
         ELSE SplitBlankLinesFrom(s, i + 1, Append(cur, s[i]))

SplitBlankLines(s) == SplitBlankLinesFrom(s, 1, <<>>)

\* paragraphs.filter(p => p.trim())
RECURSIVE FilterTrimTruthy(_)
FilterTrimTruthy(ps) ==
    IF ps = <<>> THEN <<>>
    ELSE (IF TrimTruthy(ps[1]) THEN <<ps[1]>> ELSE <<>>) \o FilterTrimTruthy(Tail(ps))

TextNode(t) == [type |-> "text", text |-> t]
HardBreak == [type |-> "hardBreak"]
Paragraph(c) == [type |-> "paragraph", content |-> c]
Doc(c) == [type |-> "doc", version |-> 1, content |-> c]

----------------------------------------------------------------------------
(* textToADF, src/api/jira.js 1417-1455 *)

\* a faulty forEach that never pushes the hardBreak between lines
RECURSIVE ParagraphContentNoBreaks(_, _)
ParagraphContentNoBreaks(lines, index) ==
    IF index > Len(lines) THEN <<>>
    ELSE (IF lines[index] # <<>> THEN <<TextNode(lines[index])>> ELSE <<>>)
         \o ParagraphContentNoBreaks(lines, index + 1)

\* lines.forEach: a text node for a non-empty line, a hardBreak after every
\* line but the last
RECURSIVE ParagraphContent(_, _)
ParagraphContent(lines, index) ==
    IF index > Len(lines) THEN <<>>
    ELSE (IF lines[index] # <<>> THEN <<TextNode(lines[index])>> ELSE <<>>)
         \o (IF index < Len(lines) THEN <<HardBreak>> ELSE <<>>)
         \o ParagraphContent(lines, index + 1)

\* the nodes of one paragraph, with the faulty forEach
ParagraphNodesNoBreaks(paragraph) ==
    ParagraphContentNoBreaks(Split(paragraph, <<NL>>), 1)

\* const lines = paragraph.split('\n'); lines.forEach(...)
ParagraphNodes(paragraph) == ParagraphContent(Split(paragraph, <<NL>>), 1)

TextToADF(t) ==
    IF ~TextTruthy(t) THEN Doc(<<>>)
    ELSE LET paragraphs == FilterTrimTruthy(SplitBlankLines(t))
         IN Doc([k \in 1..Len(paragraphs) |->
                    Paragraph(ParagraphNodes(paragraphs[k]))])

----------------------------------------------------------------------------
(* buildAdfDocument, server/index.js 289-316 *)

\* line => [{ type: 'text', text: line }, hardBreak unless last], flattened
RECURSIVE LineNodes(_, _)
LineNodes(lines, index) ==
    IF index > Len(lines) THEN <<>>
    ELSE <<TextNode(lines[index])>>
         \o (IF index < Len(lines) THEN <<HardBreak>> ELSE <<>>)
         \o LineNodes(lines, index + 1)

BuildParagraphs(t) ==
    LET paragraphs == FilterTrimTruthy(Split(t, <<NL, NL>>))
    IN [k \in 1..Len(paragraphs) |->
           Paragraph(LineNodes(Split(paragraphs[k], <<NL>>), 1))]

\* a faulty variant that gives an empty input one empty paragraph
BuildAdfDocumentOneParagraph(t) ==
    IF ~TextTruthy(t) THEN Doc(<<Paragraph(<<>>)>>) ELSE Doc(BuildParagraphs(t))

BuildAdfDocument(t) ==
    IF ~TextTruthy(t) THEN Doc(<<>>) ELSE Doc(BuildParagraphs(t))

\* POST /api/issues: a description that is a string is converted, anything
\* else is passed on as it is
NoDocument == [type |-> "undefined"]

IssuePayloadDescription(description) ==
    IF description # Missing THEN BuildAdfDocument(description) ELSE NoDocument

----------------------------------------------------------------------------
(* extractTextFromADF and extractContentText, src/api/jira.js 1238-1404 *)

\* if (depth > 20 ...) return ''
MaxExtractDepth == 20

HasContent(node) == "content" \in DOMAIN node

\* a null in a content array
NullNode == [null |-> TRUE]
IsNull(node) == "null" \in DOMAIN node

\* the nodes of the document format other than text, hardBreak and paragraph
Heading(level, c) == [type |-> "heading", attrs |-> [level |-> level], content |-> c]
ListItem(c) == [type |-> "listItem", content |-> c]
BulletList(items) == [type |-> "bulletList", content |-> items]
OrderedList(items) == [type |-> "orderedList", content |-> items]
CodeBlock(c) == [type |-> "codeBlock", content |-> c]
Blockquote(c) == [type |-> "blockquote", content |-> c]
Rule == [type |-> "rule"]
TableCell(c) == [type |-> "tableCell", content |-> c]
TableRow(cells) == [type |-> "tableRow", content |-> cells]
Table(rows) == [type |-> "table", content |-> rows]
Media == [type |-> "media"]
Panel(c) == [type |-> "panel", content |-> c]

\* string literals as sequences of characters; the back quote of the fence
\* is written "~"
FenceChars == <<"~", "~", "~">>
AnexoChars == <<"[", "A", "n", "e", "x", "o", "]">>

\* String.prototype.trim
RECURSIVE TrimStart(_)
TrimStart(s) ==
    IF s # <<>> /\ s[1] \in Whitespace THEN TrimStart(Tail(s)) ELSE s

RECURSIVE TrimEnd(_)
TrimEnd(s) ==
    IF s # <<>> /\ s[Len(s)] \in Whitespace
    THEN TrimEnd(SubSeq(s, 1, Len(s) - 1)) ELSE s

Trim(s) == TrimEnd(TrimStart(s))

\* '#'.repeat(level)
RECURSIVE Repeat(_, _)
Repeat(c, n) == IF n <= 0 THEN <<>> ELSE <<c>> \o Repeat(c, n - 1)

\* array.join(sep)
RECURSIVE Join(_, _)
Join(parts, sep) ==
    IF parts = <<>> THEN <<>>
    ELSE IF Len(parts) = 1 THEN parts[1]
    ELSE parts[1] \o sep \o Join(Tail(parts), sep)

\* lines.filter(line => line)
RECURSIVE FilterNonEmpty(_)
FilterNonEmpty(ls) ==
    IF ls = <<>> THEN <<>>
    ELSE (IF ls[1] # <<>> THEN <<ls[1]>> ELSE <<>>) \o FilterNonEmpty(Tail(ls))

\* `${index}` for the list positions of the model
IndexChars(i) ==
    <<CASE i = 1 -> "1" [] i = 2 -> "2" [] i = 3 -> "3" [] OTHER -> "9">>

\* node.attrs?.level || 1
HeadingLevel(node) ==
    IF "attrs" \in DOMAIN node /\ node.attrs.level # 0 THEN node.attrs.level
    ELSE 1

RECURSIVE ExtractContentText(_, _)
RECURSIVE NodeText(_, _)
RECURSIVE ListText(_, _, _, _)
RECURSIVE RowsText(_, _)
RECURSIVE CellTexts(_, _)

\* for (const listItem of node.content): the text of the items from the
\* first of items on, of which the next numbered one gets index
ListText(items, ordered, index, depth) ==
    IF items = <<>> THEN <<>>
    ELSE LET item == items[1]
             counts == ~IsNull(item) /\ item.type = "listItem" /\ HasContent(item)
             marker == IF ordered THEN IndexChars(index) \o <<".", " ">>
                       ELSE <<"*", " ">>
         IN (IF counts
             THEN marker \o Trim(ExtractContentText(item.content, depth + 1)) \o <<NL>>
             ELSE <<>>)
            \o ListText(Tail(items), ordered,
                        IF counts THEN index + 1 ELSE index, depth)

\* row.content.map(cell => ...)
CellTexts(cells, depth) ==
    IF cells = <<>> THEN <<>>
    ELSE <<IF ~IsNull(cells[1]) /\ HasContent(cells[1])
           THEN Trim(ExtractContentText(cells[1].content, depth + 1))
           ELSE <<>> >>
         \o CellTexts(Tail(cells), depth)

\* for (const row of node.content)
RowsText(rows, depth) ==
    IF rows = <<>> THEN <<>>
    ELSE LET row == rows[1]
         IN (IF ~IsNull(row) /\ row.type = "tableRow" /\ HasContent(row)
             THEN <<"|", " ">> \o Join(CellTexts(row.content, depth), <<" ", "|", " ">>)
                  \o <<" ", "|", NL>>
             ELSE <<>>)
            \o RowsText(Tail(rows), depth)

\* a faulty end of paragraph that leaves a blank line
ParagraphTerminatorBlankLine == <<NL, NL>>

\* case 'paragraph': text += '\n'
ParagraphTerminator == <<NL>>

\* the text one node adds (the switch on node.type); the bullet character of
\* the source is written "*"
NodeText(node, depth) ==
    IF IsNull(node) THEN <<>>
    ELSE
    CASE node.type = "text" -> node.text
      [] node.type = "hardBreak" -> <<NL>>
      [] node.type = "paragraph" ->
            (IF HasContent(node) THEN ExtractContentText(node.content, depth + 1)
             ELSE <<>>) \o ParagraphTerminator
      [] node.type = "heading" ->
            IF HasContent(node)
            THEN Repeat("#", HeadingLevel(node)) \o <<" ">>
                 \o ExtractContentText(node.content, depth + 1) \o <<NL>>
            ELSE <<>>
      [] node.type = "bulletList" ->
            IF HasContent(node) THEN ListText(node.content, FALSE, 1, depth)
            ELSE <<>>
      [] node.type = "orderedList" ->
            IF HasContent(node) THEN ListText(node.content, TRUE, 1, depth)
            ELSE <<>>
      [] node.type = "codeBlock" ->
            FenceChars \o <<NL>>
            \o (IF HasContent(node) THEN ExtractContentText(node.content, depth + 1)
                ELSE <<>>)
            \o <<NL>> \o FenceChars \o <<NL>>
      [] node.type = "blockquote" ->
            IF HasContent(node)
            THEN Join([i \in 1..Len(FilterNonEmpty(Split(
                           ExtractContentText(node.content, depth + 1), <<NL>>))) |->
                         <<">", " ">> \o FilterNonEmpty(Split(
                           ExtractContentText(node.content, depth + 1), <<NL>>))[i]],
                      <<NL>>) \o <<NL>>
            ELSE <<>>
      [] node.type = "rule" -> <<NL, "-", "-", "-", NL>>
      [] node.type = "table" ->
            IF HasContent(node) THEN RowsText(node.content, depth) ELSE <<>>
      [] node.type \in {"mediaSingle", "media"} -> AnexoChars
      [] OTHER ->
            IF HasContent(node) THEN ExtractContentText(node.content, depth + 1)
            ELSE <<>>

ExtractContentText(content, depth) ==
    IF depth > MaxExtractDepth \/ content = <<>> THEN <<>>
    ELSE NodeText(content[1], depth) \o ExtractContentText(Tail(content), depth)

ExtractTextFromADF(adfContent) ==
    IF adfContent.type = "doc" /\ HasContent(adfContent)
    THEN ExtractContentText(adfContent.content, 0)
    ELSE <<>>

RECURSIVE ContentThrows(_, _)
RECURSIVE NodeThrows(_, _)

\* the switch throws for this node: listItem.type, row.type or cell.content
\* of a null (TypeError), '#'.repeat of a negative level (RangeError), or a
\* nested call that throws
NodeThrows(node, depth) ==
    IF IsNull(node) THEN FALSE
    ELSE
    CASE node.type \in {"text", "hardBreak", "rule", "media", "mediaSingle"} -> FALSE
      [] node.type = "heading" ->
            HasContent(node) /\ (\/ ContentThrows(node.content, depth + 1)
                                 \/ HeadingLevel(node) < 0)
      [] node.type \in {"bulletList", "orderedList"} ->
            HasContent(node) /\ \E i \in 1..Len(node.content) :
                LET item == node.content[i]
                IN \/ IsNull(item)
                   \/ /\ item.type = "listItem" /\ HasContent(item)
                      /\ ContentThrows(item.content, depth + 1)
      [] node.type = "table" ->
            HasContent(node) /\ \E i \in 1..Len(node.content) :
                LET row == node.content[i]
                IN \/ IsNull(row)
                   \/ /\ row.type = "tableRow" /\ HasContent(row)
                      /\ \E j \in 1..Len(row.content) :
                            LET cell == row.content[j]
                            IN \/ IsNull(cell)
                               \/ /\ HasContent(cell)
                                  /\ ContentThrows(cell.content, depth + 1)
      [] OTHER -> HasContent(node) /\ ContentThrows(node.content, depth + 1)

\* extractContentText(content, depth) throws
ContentThrows(content, depth) ==
    /\ depth <= MaxExtractDepth
    /\ \E i \in 1..Len(content) : NodeThrows(content[i], depth)

\* extractTextFromADF(adfContent) throws
ExtractThrows(adfContent) ==
    /\ adfContent.type = "doc" /\ HasContent(adfContent)
    /\ ContentThrows(adfContent.content, 0)

\* what the caller of extractTextFromADF gets in place of a text when it throws
Thrown == <<"exception">>

\* the text returned by extractTextFromADF, or the exception
ExtractOutcome(adfContent) ==
    IF ExtractThrows(adfContent) THEN Thrown ELSE ExtractTextFromADF(adfContent)

----------------------------------------------------------------------------
(* The conversions applied to bounded inputs *)

AdfChars == {"a", "1", " ", NL}

RECURSIVE StringsUpTo(_, _)
StringsUpTo(chars, n) ==
    IF n = 0 THEN {<<>>}
    ELSE LET shorter == StringsUpTo(chars, n - 1)
         IN shorter \cup {Append(s, c) : s \in shorter, c \in chars}

AdfInit ==
    /\ adfPc = "input"
    /\ text \in StringsUpTo(AdfChars, MaxTextLen) \cup {Missing}
    /\ adfDocument = NoDocument
    /\ plainText = <<>>
    \* the other parts of the model are not running
    /\ pc = "off" /\ fetchAll = FALSE /\ allIssues = <<>> /\ nextPageToken = NoToken
    /\ isLast = FALSE /\ requests = <<>> /\ responses = <<>> /\ failure = NoError
    /\ resStatus = 0 /\ resBody = NoBody
    /\ commentPc = "off" /\ comment = NoComment /\ isInternal = FALSE
    /\ commentType = ""
    /\ labelDone = {} /\ email = <<>> /\ label = <<>> /\ userLabels = <<>>
    /\ labelReq = <<>>
    /\ proxyPc = "off" /\ proxyRoute = "" /\ reqBody = NoRequestBody /\ credentials = {}
    /\ upstreamCalls = 0 /\ upstreamAnswer = NoAnswer /\ proxyStatus = 0
    /\ proxyBody = NoBody
    /\ retryPc = "off" /\ apiCall = NoApiCall /\ retries = 0 /\ attempts = 0
    /\ delays = <<>> /\ fetchFailures = <<>> /\ outcome = NoOutcome
    /\ delivered = 0
    /\ appPc = "off" /\ authLoading = FALSE /\ authUser = NoUser /\ loading = FALSE
    /\ appError = NoAppError /\ showCreateForm = FALSE /\ selectedTicket = 0
    /\ pendingLoads = 0 /\ effectEmail = Undefined /\ screen = ""
    /\ allTickets = <<>> /\ lastLoad = "none"
    /\ resolvePc = "off" /\ ticketProp = "" /\ detailedTicket = NoTicket /\ detailLoading = FALSE
    /\ detailError = NoDetailError /\ detailLoads = <<>> /\ awaitedLoad = 0
    /\ resolving = FALSE /\ resolutionComment = <<>> /\ showResolveModal = FALSE
    /\ resolveCalls = <<>> /\ ticketResolved = {} /\ resolutionPosted = {}
    /\ alerted = ""
    /\ relPc = "off" /\ dateInput = NoDate /\ relativeDate = NoRelativeDate
    /\ dashPc = "off" /\ dashboardTickets = <<>> /\ filter = "" /\ searchTerm = ""
    /\ displayedTickets = <<>>

\* the browser module converts the text
CallTextToADF ==
    /\ adfPc = "input"
    /\ adfDocument' = TextToADF(text)
    /\ adfPc' = "textToADF"
    /\ UNCHANGED <<text, plainText>>
    /\ UNCHANGED nonAdfVars

\* the proxy converts the text
CallBuildAdfDocument ==
    /\ adfPc = "input"
    /\ adfDocument' = BuildAdfDocument(text)
    /\ adfPc' = "buildAdfDocument"
    /\ UNCHANGED <<text, plainText>>
    /\ UNCHANGED nonAdfVars

\* POST /api/issues prepares fields.description of the payload
PostIssueDescription ==
    /\ adfPc = "input"
    /\ adfDocument' = IssuePayloadDescription(text)
    /\ adfPc' = "issuePayload"
    /\ UNCHANGED <<text, plainText>>
    /\ UNCHANGED nonAdfVars

\* the browser module converts the document back to text
CallExtractTextFromADF ==
    /\ adfPc \in {"textToADF", "buildAdfDocument"}
    /\ plainText' = ExtractOutcome(adfDocument)
    /\ adfPc' = IF adfPc = "textToADF" THEN "roundTrip" ELSE "extracted"
    /\ UNCHANGED <<text, adfDocument>>
    /\ UNCHANGED nonAdfVars

AdfNext ==
    \/ CallTextToADF
    \/ CallBuildAdfDocument
    \/ PostIssueDescription
    \/ CallExtractTextFromADF

SpecAdf == AdfInit /\ [][AdfNext]_vars

----------------------------------------------------------------------------
(* Properties of the conversions *)

\* a plain text: only letters, digits and newlines
PlainInput(t) ==
    /\ t # Missing
    /\ \A i \in 1..Len(t) : t[i] \in {"a", "1", NL}

\* position i of t lies in a run of two or more newlines (a paragraph
\* separator)
InSeparator(t, i) ==
    /\ t[i] = NL
    /\ \/ (i > 1 /\ t[i - 1] = NL)
       \/ (i < Len(t) /\ t[i + 1] = NL)

\* last position of the paragraph that starts at position i
RECURSIVE ParagraphEnd(_, _)
ParagraphEnd(t, i) ==
    IF i < Len(t) /\ ~InSeparator(t, i + 1) THEN ParagraphEnd(t, i + 1) ELSE i

\* the paragraphs of t from position i on that are not blank, each followed
\* by one newline
RECURSIVE ParagraphsWithNewline(_, _)
ParagraphsWithNewline(t, i) ==
    IF i > Len(t) THEN <<>>
    ELSE IF InSeparator(t, i) THEN ParagraphsWithNewline(t, i + 1)
    ELSE LET j == ParagraphEnd(t, i)
             p == SubSeq(t, i, j)
         IN (IF \A k \in 1..Len(p) : p[k] \in Whitespace THEN <<>> ELSE p \o <<NL>>)
            \o ParagraphsWithNewline(t, j + 1)

\* C5 as stated: the round trip through textToADF and extractTextFromADF
\* returns the original plain text.
C5_RoundTripIsIdentity ==
    (adfPc = "roundTrip" /\ PlainInput(text)) => plainText = text

\* C5, amended: the round trip of a plain text returns its non-blank
\* paragraphs, each followed by exactly one newline (the blank-line separators
\* are not restored and a trailing newline is added); it returns the original
\* text only when that text is empty.
C5_RoundTripJoinsParagraphs ==
    (adfPc = "roundTrip" /\ PlainInput(text)) =>
        /\ plainText = ParagraphsWithNewline(text, 1)
        /\ (plainText = text) <=> (text = <<>>)

C5_Witness ==
    /\ adfPc = "roundTrip"
    /\ text = <<"a", NL, NL, "1">>
    /\ plainText = <<"a", NL, "1", NL>>

\* C6: an empty input (empty string or missing value) gives a document of
\* type doc, version 1, with zero content blocks, from textToADF and from
\* buildAdfDocument, and so does an empty-string description in the payload
\* of POST /api/issues.
C6_EmptyInputEmptyDocument ==
    /\ (adfPc \in {"textToADF", "roundTrip", "buildAdfDocument", "extracted"}
        /\ text \in {<<>>, Missing}) =>
          adfDocument = [type |-> "doc", version |-> 1, content |-> <<>>]
    /\ (adfPc = "issuePayload" /\ text = <<>>) =>
          adfDocument = [type |-> "doc", version |-> 1, content |-> <<>>]

C6_Witness ==
    /\ adfPc = "issuePayload"
    /\ text = <<>>
    /\ adfDocument.type = "doc"
    /\ adfDocument.content = <<>>

\* C29: the document of buildAdfDocument has no text node with an empty text
\* and no paragraph with an empty content.
C29_NoEmptyTextNodes ==
    adfPc \in {"buildAdfDocument", "issuePayload"} /\ adfDocument # NoDocument =>
        \A k \in 1..Len(adfDocument.content) :
            LET nodes == adfDocument.content[k].content
            IN /\ nodes # <<>>
               /\ \A n \in 1..Len(nodes) :
                    nodes[n].type = "text" => nodes[n].text # <<>>

----------------------------------------------------------------------------
(* extractTextFromADF applied to documents received from the upstream *)

\* most blocks of a received document in the model
MaxDocBlocks == 2
\* how far beyond the depth limit the nesting of the model goes
MaxOverDepth == 2

TextA == <<TextNode(<<"a">>)>>
TextB == <<TextNode(<<"b">>)>>

\* content c wrapped in k nodes of a type the switch has no case for
RECURSIVE Nest(_, _)
Nest(k, c) == IF k = 0 THEN c ELSE <<Panel(Nest(k - 1, c))>>

\* block nodes of well-formed documents, with content
ContentBlocks ==
    {Paragraph(TextA), Paragraph(TextB),
     Paragraph(<<TextNode(<<"a">>), HardBreak, TextNode(<<"b">>)>>),
     Heading(1, TextA), Heading(2, TextB),
     BulletList(<<ListItem(<<Paragraph(TextA)>>), ListItem(<<Paragraph(TextB)>>)>>),
     OrderedList(<<ListItem(<<Paragraph(TextA)>>), ListItem(<<Paragraph(TextB)>>)>>),
     CodeBlock(TextA),
     Blockquote(<<Paragraph(TextA), Paragraph(TextB)>>),
     Table(<<TableRow(<<TableCell(<<Paragraph(TextA)>>),
                        TableCell(<<Paragraph(TextB)>>)>>)>>)}

\* the other nodes of well-formed documents
OtherBlocks ==
    {Paragraph(<<>>), [type |-> "heading"], Heading(0, TextA), Rule, Media}

\* text nested in k wrappers, around the depth limit; the deepest one is also
\* what the extraction can follow of a node that contains itself
DeepBlocks ==
    {Nest(k, TextA)[1] :
        k \in (MaxExtractDepth - 1)..(MaxExtractDepth + MaxOverDepth)}

\* nodes of malformed documents
MalformedBlocks ==
    {NullNode, BulletList(<<NullNode>>),
     OrderedList(<<ListItem(<<Paragraph(TextA)>>), NullNode>>),
     Table(<<NullNode>>), Table(<<TableRow(<<NullNode>>)>>),
     Heading(-1, TextA)}

Blocks == ContentBlocks \cup OtherBlocks \cup DeepBlocks \cup MalformedBlocks

RECURSIVE BlockSeqs(_)
BlockSeqs(n) ==
    IF n = 0 THEN {<<>>}
    ELSE LET shorter == BlockSeqs(n - 1)
         IN shorter \cup {Append(bs, b) : bs \in shorter, b \in Blocks}

\* the documents the upstream may hand to the browser module
UpstreamDocuments == {Doc(bs) : bs \in BlockSeqs(MaxDocBlocks)}

ExtractInit ==
    /\ adfPc = "received"
    /\ text = <<>>
    /\ adfDocument \in UpstreamDocuments
    /\ plainText = <<>>
    \* the other parts of the model are not running
    /\ pc = "off" /\ fetchAll = FALSE /\ allIssues = <<>> /\ nextPageToken = NoToken
    /\ isLast = FALSE /\ requests = <<>> /\ responses = <<>> /\ failure = NoError
    /\ resStatus = 0 /\ resBody = NoBody
    /\ commentPc = "off" /\ comment = NoComment /\ isInternal = FALSE
    /\ commentType = ""
    /\ labelDone = {} /\ email = <<>> /\ label = <<>> /\ userLabels = <<>>
    /\ labelReq = <<>>
    /\ proxyPc = "off" /\ proxyRoute = "" /\ reqBody = NoRequestBody /\ credentials = {}
    /\ upstreamCalls = 0 /\ upstreamAnswer = NoAnswer /\ proxyStatus = 0
    /\ proxyBody = NoBody
    /\ retryPc = "off" /\ apiCall = NoApiCall /\ retries = 0 /\ attempts = 0
    /\ delays = <<>> /\ fetchFailures = <<>> /\ outcome = NoOutcome
    /\ delivered = 0
    /\ appPc = "off" /\ authLoading = FALSE /\ authUser = NoUser /\ loading = FALSE
    /\ appError = NoAppError /\ showCreateForm = FALSE /\ selectedTicket = 0
    /\ pendingLoads = 0 /\ effectEmail = Undefined /\ screen = ""
    /\ allTickets = <<>> /\ lastLoad = "none"
    /\ resolvePc = "off" /\ ticketProp = "" /\ detailedTicket = NoTicket /\ detailLoading = FALSE
    /\ detailError = NoDetailError /\ detailLoads = <<>> /\ awaitedLoad = 0
    /\ resolving = FALSE /\ resolutionComment = <<>> /\ showResolveModal = FALSE
    /\ resolveCalls = <<>> /\ ticketResolved = {} /\ resolutionPosted = {}
    /\ alerted = ""
    /\ relPc = "off" /\ dateInput = NoDate /\ relativeDate = NoRelativeDate
    /\ dashPc = "off" /\ dashboardTickets = <<>> /\ filter = "" /\ searchTerm = ""
    /\ displayedTickets = <<>>

\* the browser module converts a received document to text
ExtractReceivedDocument ==
    /\ adfPc = "received"
    /\ plainText' = ExtractOutcome(adfDocument)
    /\ adfPc' = "converted"
    /\ UNCHANGED <<text, adfDocument>>
    /\ UNCHANGED nonAdfVars

ExtractNext == ExtractReceivedDocument

SpecExtract == ExtractInit /\ [][ExtractNext]_vars

\* the text ends with a newline that no other newline precedes
EndsWithSingleNewline(t) ==
    /\ t # <<>>
    /\ t[Len(t)] = NL
    /\ Len(t) > 1 => t[Len(t) - 1] # NL

\* what a block with content is to contribute, written out
ExpectedText(b) ==
    CASE b = Paragraph(TextA) -> <<"a", NL>>
      [] b = Paragraph(TextB) -> <<"b", NL>>
      [] b = Paragraph(<<TextNode(<<"a">>), HardBreak, TextNode(<<"b">>)>>) ->
            <<"a", NL, "b", NL>>
      [] b = Heading(1, TextA) -> <<"#", " ", "a", NL>>
      [] b = Heading(2, TextB) -> <<"#", "#", " ", "b", NL>>
      [] b.type = "bulletList" -> <<"*", " ", "a", NL, "*", " ", "b", NL>>
      [] b.type = "orderedList" ->
            <<"1", ".", " ", "a", NL, "2", ".", " ", "b", NL>>
      [] b.type = "codeBlock" ->
            <<"~", "~", "~", NL, "a", NL, "~", "~", "~", NL>>
      [] b.type = "blockquote" -> <<">", " ", "a", NL, ">", " ", "b", NL>>
      [] b.type = "table" -> <<"|", " ", "a", " ", "|", " ", "b", " ", "|", NL>>

\* C18 as stated: extractTextFromADF never throws, whatever the document
\* (malformed or nested without end); text nested more than 20 levels deep
\* contributes the empty string, shallower content is still converted.
C18_ExtractionNeverThrows ==
    (adfPc = "converted") =>
        /\ plainText # Thrown
        /\ \A k \in (MaxExtractDepth - 1)..(MaxExtractDepth + MaxOverDepth) :
              /\ adfDocument = Doc(Nest(k, TextA)) =>
                    plainText = (IF k > 20 THEN <<>> ELSE <<"a">>)
              /\ adfDocument = Doc(<<Paragraph(TextB)>> \o Nest(k, TextA)) =>
                    plainText = (IF k > 20 THEN <<"b", NL>> ELSE <<"b", NL, "a">>)

\* C19 as stated: every block-level node with content contributes its
\* content followed by a single trailing newline, and consecutive paragraphs
\* are separated by a blank line.
C19_ParagraphsSeparatedByBlankLine ==
    (adfPc = "converted") =>
        /\ \A b \in ContentBlocks :
              adfDocument = Doc(<<b>>) => EndsWithSingleNewline(plainText)
        /\ \A x, y \in {<<"a">>, <<"b">>} :
              adfDocument = Doc(<<Paragraph(<<TextNode(x)>>), Paragraph(<<TextNode(y)>>)>>)
                => plainText = x \o <<NL, NL>> \o y \o <<NL>>

\* C19, amended: every block-level node with content contributes its content
\* (with the marker of its kind) followed by a single trailing newline, the
\* contributions of consecutive blocks are put one after the other, and so
\* consecutive paragraphs are separated by that one newline only, not by a
\* blank line.
C19_BlocksEndWithSingleNewline ==
    (adfPc = "converted") =>
        /\ \A b \in ContentBlocks :
              adfDocument = Doc(<<b>>) =>
                 /\ EndsWithSingleNewline(plainText)
                 /\ plainText = ExpectedText(b)
        /\ \A b1, b2 \in ContentBlocks :
              adfDocument = Doc(<<b1, b2>>) =>
                 plainText = ExpectedText(b1) \o ExpectedText(b2)
        /\ \A x, y \in {<<"a">>, <<"b">>} :
              adfDocument = Doc(<<Paragraph(<<TextNode(x)>>), Paragraph(<<TextNode(y)>>)>>)
                => plainText = x \o <<NL>> \o y \o <<NL>>

C19_Witness ==
    /\ adfPc = "converted"
    /\ adfDocument = Doc(<<Paragraph(TextA), Paragraph(TextB)>>)
    /\ plainText = <<"a", NL, "b", NL>>

----------------------------------------------------------------------------
(* searchIssues, server/index.js 187-266 *)

\* a faulty accumulation that puts each new page in front
AccumulatePrepend(all, issues) == issues \o all

\* allIssues = allIssues.concat(issues)
Accumulate(all, issues) == all \o issues

\* a faulty stop test that lacks the "no issues and no token" case
IsLastWithoutEmptyStop(data, fa) ==
    \/ data.isLast = TRUE
    \/ ~fa

\* isLast after a page: data.isLast === true, then forced to true when
\* !fetchAll || (issues.length === 0 && !nextPageToken)
IsLastAfterPage(data, fa) ==
    \/ data.isLast = TRUE
    \/ ~fa
    \/ (Len(data.issues) = 0 /\ ~Truthy(data.nextPageToken))

\* return { issues, total, startAt, maxResults }
SearchResult(all) ==
    [kind |-> "result", issues |-> all, total |-> Len(all), startAt |-> 0,
     maxResults |-> Len(all)]

\* a faulty catch that answers 500 whatever the upstream status was
RouteErrorStatusAlways500(error) == 500

\* res.status(error.status || 500)
RouteErrorStatus(error) ==
    IF error.status # NoStatus THEN error.status ELSE 500

\* .json({ error: error.message })
RouteErrorBody(error) == [kind |-> "error", error |-> error.message]

\* a faulty request that never carries a token
RequestTokenNever(token) == NoToken

\* if (nextPageToken) requestBody.nextPageToken = nextPageToken
RequestToken(token) == IF Truthy(token) THEN token ELSE NoToken

SearchInit ==
    /\ pc = "idle"
    /\ fetchAll \in BOOLEAN
    /\ allIssues = <<>>
    /\ nextPageToken = NoToken
    /\ isLast = FALSE
    /\ requests = <<>>
    /\ responses = <<>>
    /\ failure = NoError
    /\ resStatus = 0
    /\ resBody = NoBody
    \* the other parts of the model are not running
    /\ adfPc = "off" /\ text = <<>> /\ adfDocument = NoDocument /\ plainText = <<>>
    /\ commentPc = "off" /\ comment = NoComment /\ isInternal = FALSE
    /\ commentType = ""
    /\ labelDone = {} /\ email = <<>> /\ label = <<>> /\ userLabels = <<>>
    /\ labelReq = <<>>
    /\ proxyPc = "off" /\ proxyRoute = "" /\ reqBody = NoRequestBody /\ credentials = {}
    /\ upstreamCalls = 0 /\ upstreamAnswer = NoAnswer /\ proxyStatus = 0
    /\ proxyBody = NoBody
    /\ retryPc = "off" /\ apiCall = NoApiCall /\ retries = 0 /\ attempts = 0
    /\ delays = <<>> /\ fetchFailures = <<>> /\ outcome = NoOutcome
    /\ delivered = 0
    /\ appPc = "off" /\ authLoading = FALSE /\ authUser = NoUser /\ loading = FALSE
    /\ appError = NoAppError /\ showCreateForm = FALSE /\ selectedTicket = 0
    /\ pendingLoads = 0 /\ effectEmail = Undefined /\ screen = ""
    /\ allTickets = <<>> /\ lastLoad = "none"
    /\ resolvePc = "off" /\ ticketProp = "" /\ detailedTicket = NoTicket /\ detailLoading = FALSE
    /\ detailError = NoDetailError /\ detailLoads = <<>> /\ awaitedLoad = 0
    /\ resolving = FALSE /\ resolutionComment = <<>> /\ showResolveModal = FALSE
    /\ resolveCalls = <<>> /\ ticketResolved = {} /\ resolutionPosted = {}
    /\ alerted = ""
    /\ relPc = "off" /\ dateInput = NoDate /\ relativeDate = NoRelativeDate
    /\ dashPc = "off" /\ dashboardTickets = <<>> /\ filter = "" /\ searchTerm = ""
    /\ displayedTickets = <<>>

\* the route is called: searchIssues starts and sends the first request,
\* which carries no token
GetTickets ==
    /\ pc = "idle"
    /\ pc' = "await"
    /\ requests' = <<RequestToken(nextPageToken)>>
    /\ UNCHANGED <<fetchAll, allIssues, nextPageToken, isLast, responses,
                   failure, resStatus, resBody>>
    /\ UNCHANGED nonSearchVars

\* a page arrives: accumulate, update the loop variables, then either send
\* the next request (while !isLast) or return and answer 200
ReceivePage ==
    /\ pc = "await"
    /\ \E data \in UpstreamPages :
        LET last == IsLastAfterPage(data, fetchAll)
            all  == Accumulate(allIssues, data.issues)
        IN /\ last \/ Len(requests) < MaxRequests
           /\ responses' = Append(responses, data)
           /\ allIssues' = all
           /\ nextPageToken' = data.nextPageToken
           /\ isLast' = last
           /\ IF last
              THEN /\ pc' = "responded"
                   /\ resStatus' = 200
                   /\ resBody' = SearchResult(all)
                   /\ UNCHANGED requests
              ELSE /\ pc' = "await"
                   /\ requests' = Append(requests, RequestToken(data.nextPageToken))
                   /\ UNCHANGED <<resStatus, resBody>>
    /\ UNCHANGED <<fetchAll, failure>>
    /\ UNCHANGED nonSearchVars

\* a 2xx answer with an empty body: jiraRequest returns null, the loop breaks
ReceiveEmptyBody ==
    /\ pc = "await"
    /\ responses' = Append(responses, NullData)
    /\ isLast' = TRUE
    /\ pc' = "responded"
    /\ resStatus' = 200
    /\ resBody' = SearchResult(allIssues)
    /\ UNCHANGED <<fetchAll, allIssues, nextPageToken, requests, failure>>
    /\ UNCHANGED nonSearchVars

\* the request fails: jiraRequest throws, searchIssues rethrows, the route's
\* catch answers with the error
ReceiveError ==
    /\ pc = "await"
    /\ \E error \in {HttpError(s) : s \in UpstreamErrorStatuses} \cup {TransportError} :
        /\ pc' = "failed"
        /\ failure' = error
        /\ resStatus' = RouteErrorStatus(error)
        /\ resBody' = RouteErrorBody(error)
    /\ UNCHANGED <<fetchAll, allIssues, nextPageToken, isLast, requests, responses>>
    /\ UNCHANGED nonSearchVars

SearchNext ==
    \/ GetTickets
    \/ ReceivePage
    \/ ReceiveEmptyBody
    \/ ReceiveError

SpecSearch == SearchInit /\ [][SearchNext]_vars

----------------------------------------------------------------------------
(* Properties of the paginated search *)

\* the upstream served pages P1..Pn: every answer is a page, every non-final
\* one is not flagged last and carries a token, the final one is flagged last
WellPaged(rs) ==
    /\ Len(rs) >= 1
    /\ \A k \in 1..Len(rs) : rs[k].kind = "page"
    /\ \A k \in 1..(Len(rs) - 1) :
          rs[k].isLast = FALSE /\ rs[k].nextPageToken # NoToken
    /\ rs[Len(rs)].isLast = TRUE

\* P1 ++ P2 ++ ... ++ Pn
RECURSIVE ConcatPages(_)
ConcatPages(rs) ==
    IF rs = <<>> THEN <<>> ELSE rs[1].issues \o ConcatPages(Tail(rs))

NoDuplicates(seq) ==
    \A i, j \in 1..Len(seq) : seq[i] = seq[j] => i = j

\* C1: with fetch-all enabled and an upstream that serves pages P1..Pn, the
\* search returns exactly P1 ++ ... ++ Pn, in that order, nothing omitted or
\* duplicated, and a total equal to the sum of the page sizes.
C1_FetchAllConcatenatesPages ==
    (pc = "responded" /\ fetchAll /\ WellPaged(responses)) =>
        /\ resStatus = 200
        /\ resBody.issues = ConcatPages(responses)
        /\ resBody.issues = [i \in 1..SumLen(responses) |-> i]
        /\ NoDuplicates(resBody.issues)
        /\ resBody.total = SumLen(responses)
        /\ Len(requests) = Len(responses)

C1_Witness ==
    /\ pc = "responded" /\ fetchAll /\ WellPaged(responses)
    /\ Len(responses) >= 3
    /\ Len(responses[1].issues) = 2
    /\ Len(responses[2].issues) = 0
    /\ Len(responses[3].issues) = 1
    /\ resBody.total = 3

\* C2: after a page, a further request is issued if and only if fetch-all is
\* on, the page is not flagged last and it carries a next-page token; the
\* first page (a request without token) is never requested a second time.
C2_FurtherRequestIffTokenAndNotLast ==
    /\ (Len(responses) >= 1 /\ pc # "failed") =>
          LET r == responses[Len(responses)] IN
          (pc = "await") <=>
              (/\ r.kind = "page"
               /\ fetchAll
               /\ r.isLast = FALSE
               /\ r.nextPageToken # NoToken)
    /\ \A k \in 2..Len(requests) : requests[k] # NoToken

\* C3: a failing page request, the first or a later one, ends the search: no
\* further page is requested, the route answers with the upstream status
\* (500 when there is none) and the error message, and no accumulated issue
\* is returned.
C3_FailureAbortsSearch ==
    (pc = "failed") =>
        /\ failure.kind # "none"
        /\ resStatus = (IF failure.kind = "http" THEN failure.status ELSE 500)
        /\ resBody = [kind |-> "error", error |-> failure.message]
        /\ Len(requests) = Len(responses) + 1
        /\ ~ENABLED SearchNext

C3_Witness ==
    /\ pc = "failed"
    /\ failure.kind = "http"
    /\ Len(responses) >= 2
    /\ Len(allIssues) >= 2
    /\ resStatus = 503

\* C4: a first page with zero issues and no token completes the search after
\* exactly one request, with an empty list and total 0, whether or not the
\* page is flagged last.
C4_EmptyFirstPageCompletes ==
    (/\ Len(responses) >= 1
     /\ responses[1].kind = "page"
     /\ responses[1].issues = <<>>
     /\ responses[1].nextPageToken = NoToken) =>
        /\ pc = "responded"
        /\ Len(requests) = 1
        /\ resStatus = 200
        /\ resBody.kind = "result"
        /\ resBody.issues = <<>>
        /\ resBody.total = 0

C4_Witness ==
    /\ pc = "responded"
    /\ fetchAll
    /\ Len(responses) = 1
    /\ responses[1].kind = "page"
    /\ responses[1].issues = <<>>
    /\ responses[1].nextPageToken = NoToken
    /\ responses[1].isLast = FALSE
    /\ resBody.total = 0

\* upstream requests of the search that have not been answered yet
InFlight ==
    Len(requests) - Len(responses) - (IF pc = "failed" THEN 1 ELSE 0)

\* C20: within one search the upstream requests are strictly sequential: the
\* first request carries no page token, request k+1 exists only when response
\* k has been received and carries exactly the next-page token of response k,
\* and at most one request is in flight at any time.
C20_RequestsStrictlySequential ==
    /\ requests # <<>> => requests[1] = NoToken
    /\ \A k \in 1..(Len(requests) - 1) :
          /\ k <= Len(responses)
          /\ responses[k].kind = "page"
          /\ requests[k + 1] = responses[k].nextPageToken
    /\ InFlight \in {0, 1}
    /\ InFlight = 1 <=> pc = "await"

C20_Witness ==
    /\ pc = "await"
    /\ Len(requests) = 3
    /\ Len(responses) = 2
    /\ responses[2].nextPageToken # NoToken
    /\ requests[3] = responses[2].nextPageToken

----------------------------------------------------------------------------
(* Comment classification, src/api/jira.js 144-162 and 1561-1601 *)

UpperLetters ==
    <<"A", "B", "C", "D", "E", "F", "G", "H", "I", "J", "K", "L", "M",
      "N", "O", "P", "Q", "R", "S", "T", "U", "V", "W", "X", "Y", "Z">>

LowerLetters ==
    <<"a", "b", "c", "d", "e", "f", "g", "h", "i", "j", "k", "l", "m",
      "n", "o", "p", "q", "r", "s", "t", "u", "v", "w", "x", "y", "z">>

\* c.toLowerCase() and c.toUpperCase() of one character
LowerChar(c) ==
    IF \E k \in 1..26 : UpperLetters[k] = c
    THEN LowerLetters[CHOOSE k \in 1..26 : UpperLetters[k] = c]
    ELSE c

UpperChar(c) ==
    IF \E k \in 1..26 : LowerLetters[k] = c
    THEN UpperLetters[CHOOSE k \in 1..26 : LowerLetters[k] = c]
    ELSE c

\* s.toLowerCase(), s.toUpperCase()
ToLowerCase(s) == [i \in 1..Len(s) |-> LowerChar(s[i])]
ToUpperCase(s) == [i \in 1..Len(s) |-> UpperChar(s[i])]

\* s.includes(sub)
Includes(s, sub) ==
    \E i \in 0..(Len(s) - Len(sub)) : SubSeq(s, i + 1, i + Len(sub)) = sub

\* INTERNAL_VISIBILITY.roles
InternalRoles == <<
    \* Administrators
    <<"A", "d", "m", "i", "n", "i", "s", "t", "r", "a", "t", "o", "r", "s">>,
    \* jira-servicedesk-users
    <<"j", "i", "r", "a", "-", "s", "e", "r", "v", "i", "c", "e", "d", "e",
      "s", "k", "-", "u", "s", "e", "r", "s">>,
    \* Service Desk Team
    <<"S", "e", "r", "v", "i", "c", "e", " ", "D", "e", "s", "k", " ", "T",
      "e", "a", "m">>,
    \* Agents
    <<"A", "g", "e", "n", "t", "s">>,
    \* servicedesk-users
    <<"s", "e", "r", "v", "i", "c", "e", "d", "e", "s", "k", "-", "u", "s",
      "e", "r", "s">>,
    \* jira-administrators
    <<"j", "i", "r", "a", "-", "a", "d", "m", "i", "n", "i", "s", "t", "r",
      "a", "t", "o", "r", "s">>,
    \* atlassian-addons-admin
    <<"a", "t", "l", "a", "s", "s", "i", "a", "n", "-", "a", "d", "d", "o",
      "n", "s", "-", "a", "d", "m", "i", "n">>,
    \* developers
    <<"d", "e", "v", "e", "l", "o", "p", "e", "r", "s">>
>>

\* INTERNAL_VISIBILITY.groups
InternalGroups == <<
    \* jira-servicedesk-users
    <<"j", "i", "r", "a", "-", "s", "e", "r", "v", "i", "c", "e", "d", "e",
      "s", "k", "-", "u", "s", "e", "r", "s">>,
    \* jira-administrators
    <<"j", "i", "r", "a", "-", "a", "d", "m", "i", "n", "i", "s", "t", "r",
      "a", "t", "o", "r", "s">>,
    \* servicedesk-agents
    <<"s", "e", "r", "v", "i", "c", "e", "d", "e", "s", "k", "-", "a", "g",
      "e", "n", "t", "s">>,
    \* jira-software-users
    <<"j", "i", "r", "a", "-", "s", "o", "f", "t", "w", "a", "r", "e", "-",
      "u", "s", "e", "r", "s">>,
    \* site-admins
    <<"s", "i", "t", "e", "-", "a", "d", "m", "i", "n", "s">>
>>

\* comment?.visibility is present
HasVisibility(c) == c.present /\ "visibility" \in DOMAIN c

\* list.some(entry => normalizedValue.includes(entry.toLowerCase()))
SomeIncluded(list, normalizedValue) ==
    \E k \in 1..Len(list) : Includes(normalizedValue, ToLowerCase(list[k]))

\* a faulty variant that compares without lower-casing
IsInternalCommentCaseSensitive(c) ==
    IF ~HasVisibility(c) THEN FALSE
    ELSE IF c.visibility.type = "" \/ c.visibility.value = <<>> THEN FALSE
    ELSE IF c.visibility.type = "role"
         THEN \E k \in 1..Len(InternalRoles) :
                 Includes(c.visibility.value, InternalRoles[k])
    ELSE IF c.visibility.type = "group"
         THEN \E k \in 1..Len(InternalGroups) :
                 Includes(c.visibility.value, InternalGroups[k])
    ELSE FALSE

\* a faulty variant that takes an unrestricted comment for internal when the
\* service desk marks it as not public
IsInternalCommentByPublicFlag(c) ==
    IF ~HasVisibility(c) THEN c.present /\ ~c.jsdPublic
    ELSE IF c.visibility.type = "" \/ c.visibility.value = <<>> THEN FALSE
    ELSE IF c.visibility.type = "role"
         THEN SomeIncluded(InternalRoles, ToLowerCase(c.visibility.value))
    ELSE IF c.visibility.type = "group"
         THEN SomeIncluded(InternalGroups, ToLowerCase(c.visibility.value))
    ELSE FALSE

\* isInternalComment: a missing type or value is the empty string here
IsInternalComment(c) ==
    IF ~HasVisibility(c) THEN FALSE
    ELSE IF c.visibility.type = "" \/ c.visibility.value = <<>> THEN FALSE
    ELSE IF c.visibility.type = "role"
         THEN SomeIncluded(InternalRoles, ToLowerCase(c.visibility.value))
    ELSE IF c.visibility.type = "group"
         THEN SomeIncluded(InternalGroups, ToLowerCase(c.visibility.value))
    ELSE FALSE

\* getCommentType
GetCommentType(c) == IF IsInternalComment(c) THEN "internal" ELSE "customer"

\* the names of both allow-lists
AllowListed ==
    {InternalRoles[k] : k \in 1..Len(InternalRoles)}
        \cup {InternalGroups[k] : k \in 1..Len(InternalGroups)}

\* visibility values of the model: every allow-listed name as written, in
\* upper case, in lower case, inside a longer value and cut short, a value
\* that matches nothing, and the missing value
VisibilityValues ==
    AllowListed
        \cup {ToUpperCase(e) : e \in AllowListed}
        \cup {ToLowerCase(e) : e \in AllowListed}
        \cup {<<"x", " ">> \o e \o <<"-", "y">> : e \in AllowListed}
        \cup {SubSeq(e, 1, Len(e) - 1) : e \in AllowListed}
        \cup {<<"c", "u", "s", "t", "o", "m", "e", "r", "s">>, <<>>}

VisibilityTypes == {"role", "group", "user", ""}

\* the comments of the model: a missing comment, comments without a
\* visibility restriction, and comments with one
Comments ==
    {[present |-> FALSE, jsdPublic |-> TRUE]}
        \cup {[present |-> TRUE, jsdPublic |-> p] : p \in BOOLEAN}
        \cup {[present |-> TRUE, jsdPublic |-> p,
               visibility |-> [type |-> t, value |-> v]] :
                 p \in BOOLEAN, t \in VisibilityTypes, v \in VisibilityValues}

CommentInit ==
    /\ commentPc = "input"
    /\ comment \in Comments
    /\ isInternal = FALSE
    /\ commentType = ""
    \* the other parts of the model are not running
    /\ pc = "off" /\ fetchAll = FALSE /\ allIssues = <<>> /\ nextPageToken = NoToken
    /\ isLast = FALSE /\ requests = <<>> /\ responses = <<>> /\ failure = NoError
    /\ resStatus = 0 /\ resBody = NoBody
    /\ adfPc = "off" /\ text = <<>> /\ adfDocument = NoDocument /\ plainText = <<>>
    /\ labelDone = {} /\ email = <<>> /\ label = <<>> /\ userLabels = <<>>
    /\ labelReq = <<>>
    /\ proxyPc = "off" /\ proxyRoute = "" /\ reqBody = NoRequestBody /\ credentials = {}
    /\ upstreamCalls = 0 /\ upstreamAnswer = NoAnswer /\ proxyStatus = 0
    /\ proxyBody = NoBody
    /\ retryPc = "off" /\ apiCall = NoApiCall /\ retries = 0 /\ attempts = 0
    /\ delays = <<>> /\ fetchFailures = <<>> /\ outcome = NoOutcome
    /\ delivered = 0
    /\ appPc = "off" /\ authLoading = FALSE /\ authUser = NoUser /\ loading = FALSE
    /\ appError = NoAppError /\ showCreateForm = FALSE /\ selectedTicket = 0
    /\ pendingLoads = 0 /\ effectEmail = Undefined /\ screen = ""
    /\ allTickets = <<>> /\ lastLoad = "none"
    /\ resolvePc = "off" /\ ticketProp = "" /\ detailedTicket = NoTicket /\ detailLoading = FALSE
    /\ detailError = NoDetailError /\ detailLoads = <<>> /\ awaitedLoad = 0
    /\ resolving = FALSE /\ resolutionComment = <<>> /\ showResolveModal = FALSE
    /\ resolveCalls = <<>> /\ ticketResolved = {} /\ resolutionPosted = {}
    /\ alerted = ""
    /\ relPc = "off" /\ dateInput = NoDate /\ relativeDate = NoRelativeDate
    /\ dashPc = "off" /\ dashboardTickets = <<>> /\ filter = "" /\ searchTerm = ""
    /\ displayedTickets = <<>>

\* processComments adds type and isInternal to a comment
ProcessComment ==
    /\ commentPc = "input"
    /\ commentType' = GetCommentType(comment)
    /\ isInternal' = IsInternalComment(comment)
    /\ commentPc' = "classified"
    /\ UNCHANGED comment
    /\ UNCHANGED nonCommentVars

CommentNext == ProcessComment

SpecComment == CommentInit /\ [][CommentNext]_vars

----------------------------------------------------------------------------
(* Properties of the comment classification *)

\* the characters a and b are the same letter up to case, or the same
\* character
SameIgnoringCase(a, b) ==
    \/ a = b
    \/ \E k \in 1..26 : {a, b} = {UpperLetters[k], LowerLetters[k]}

\* some substring of value equals entry up to letter case
MatchesIgnoringCase(value, entry) ==
    \E i \in 0..(Len(value) - Len(entry)) :
        \A k \in 1..Len(entry) : SameIgnoringCase(value[i + k], entry[k])

MatchesList(value, list) ==
    \E k \in 1..Len(list) : MatchesIgnoringCase(value, list[k])

\* C7: a comment without visibility restriction is customer-facing, whatever
\* its other fields are.
C7_NoVisibilityIsCustomer ==
    (commentPc = "classified" /\ ~HasVisibility(comment)) =>
        (isInternal = FALSE /\ commentType = "customer")

C7_Witness ==
    /\ commentPc = "classified"
    /\ comment.present
    /\ ~HasVisibility(comment)
    /\ comment.jsdPublic = FALSE
    /\ commentType = "customer"

\* C8: a comment is internal exactly when its visibility type is role (or
\* group) and its value matches, ignoring letter case, a substring-entry of
\* the roles (or groups) allow-list; everything else is customer-facing.
C8_InternalIffAllowListed ==
    (commentPc = "classified") =>
        /\ isInternal <=>
              /\ HasVisibility(comment)
              /\ \/ /\ comment.visibility.type = "role"
                    /\ MatchesList(comment.visibility.value, InternalRoles)
                 \/ /\ comment.visibility.type = "group"
                    /\ MatchesList(comment.visibility.value, InternalGroups)
        /\ commentType = (IF isInternal THEN "internal" ELSE "customer")

C8_Witness ==
    /\ commentPc = "classified"
    /\ HasVisibility(comment)
    /\ comment.visibility.type = "role"
    /\ comment.visibility.value = <<"A", "G", "E", "N", "T", "S">>
    /\ isInternal
    /\ commentType = "internal"

----------------------------------------------------------------------------
(* Requester labels: emailToLabel of the proxy (server/index.js 276-279),  *)
(* of the creation form (CreateIssueForm.js 220-225) and of the route      *)
(* GET /api/tickets/user/:userEmail (server/index.js 504-506)              *)

Digits == {"0", "1", "2", "3", "4", "5", "6", "7", "8", "9"}

LowerSet == {LowerLetters[k] : k \in 1..26}

\* s.replace(/[^...]/g, '-') for a class given as the set of kept characters
ReplaceOutside(s, kept) == [i \in 1..Len(s) |-> IF s[i] \in kept THEN s[i] ELSE "-"]

\* the prefixes 'req' and 'id' as strings
PrefixReq == <<"r", "e", "q">>

\* a faulty variant that forgets toLowerCase
EmailToLabelNoLowerCase(e, prefix) ==
    prefix \o <<"-">> \o ReplaceOutside(e, LowerSet \cup Digits \cup {"_", "-"})

\* the proxy: `${prefix}-${email.toLowerCase().replace(/[^a-z0-9_-]/g, '-')}`
EmailToLabel(e, prefix) ==
    prefix \o <<"-">>
        \o ReplaceOutside(ToLowerCase(e), LowerSet \cup Digits \cup {"_", "-"})

\* the form: only the part of the email before the first @ is used
FormEmailToLabel(e, prefix) ==
    IF e = <<>> THEN <<>>
    ELSE LET namePart == Split(e, <<"@">>)[1]
         IN prefix \o <<"-">>
              \o ReplaceOutside(ToLowerCase(namePart), LowerSet \cup Digits \cup {"_", "-"})

\* the labels handleSubmit puts in fields.labels
FormUserLabels(e) ==
    IF e = <<>> THEN <<>>
    ELSE LET reqLabel == FormEmailToLabel(e, PrefixReq)
         IN IF reqLabel # <<>> THEN <<reqLabel>> ELSE <<>>

\* s.replace(/-+/g, '-')
RECURSIVE CollapseDashes(_)
CollapseDashes(s) ==
    IF Len(s) <= 1 THEN s
    ELSE IF s[1] = "-" /\ s[2] = "-" THEN CollapseDashes(Tail(s))
    ELSE <<s[1]>> \o CollapseDashes(Tail(s))

\* s.replace(/^-|-$/g, '')
StripDashes(s) ==
    LET s1 == IF s # <<>> /\ s[1] = "-" THEN Tail(s) ELSE s
    IN IF s1 # <<>> /\ s1[Len(s1)] = "-" THEN SubSeq(s1, 1, Len(s1) - 1) ELSE s1

\* the route's own emailToLabel
RouteEmailToLabel(e) ==
    StripDashes(CollapseDashes(ReplaceOutside(ToLowerCase(e), LowerSet \cup Digits)))

\* const labelReq = `req-${safeEmail}`
RouteLabelReq(e) == PrefixReq \o <<"-">> \o RouteEmailToLabel(e)

EmailChars == {"a", "B", "1", "_", "-", ".", "+", "@"}

LabelInit ==
    /\ labelDone = {}
    /\ email \in StringsUpTo(EmailChars, MaxEmailLen)
    /\ label = <<>>
    /\ userLabels = <<>>
    /\ labelReq = <<>>
    \* the other parts of the model are not running
    /\ pc = "off" /\ fetchAll = FALSE /\ allIssues = <<>> /\ nextPageToken = NoToken
    /\ isLast = FALSE /\ requests = <<>> /\ responses = <<>> /\ failure = NoError
    /\ resStatus = 0 /\ resBody = NoBody
    /\ adfPc = "off" /\ text = <<>> /\ adfDocument = NoDocument /\ plainText = <<>>
    /\ commentPc = "off" /\ comment = NoComment /\ isInternal = FALSE
    /\ commentType = ""
    /\ proxyPc = "off" /\ proxyRoute = "" /\ reqBody = NoRequestBody /\ credentials = {}
    /\ upstreamCalls = 0 /\ upstreamAnswer = NoAnswer /\ proxyStatus = 0
    /\ proxyBody = NoBody
    /\ retryPc = "off" /\ apiCall = NoApiCall /\ retries = 0 /\ attempts = 0
    /\ delays = <<>> /\ fetchFailures = <<>> /\ outcome = NoOutcome
    /\ delivered = 0
    /\ appPc = "off" /\ authLoading = FALSE /\ authUser = NoUser /\ loading = FALSE
    /\ appError = NoAppError /\ showCreateForm = FALSE /\ selectedTicket = 0
    /\ pendingLoads = 0 /\ effectEmail = Undefined /\ screen = ""
    /\ allTickets = <<>> /\ lastLoad = "none"
    /\ resolvePc = "off" /\ ticketProp = "" /\ detailedTicket = NoTicket /\ detailLoading = FALSE
    /\ detailError = NoDetailError /\ detailLoads = <<>> /\ awaitedLoad = 0
    /\ resolving = FALSE /\ resolutionComment = <<>> /\ showResolveModal = FALSE
    /\ resolveCalls = <<>> /\ ticketResolved = {} /\ resolutionPosted = {}
    /\ alerted = ""
    /\ relPc = "off" /\ dateInput = NoDate /\ relativeDate = NoRelativeDate
    /\ dashPc = "off" /\ dashboardTickets = <<>> /\ filter = "" /\ searchTerm = ""
    /\ displayedTickets = <<>>

\* the proxy's helper is applied to the email
CallEmailToLabel ==
    /\ "emailToLabel" \notin labelDone
    /\ label' = EmailToLabel(email, PrefixReq)
    /\ labelDone' = labelDone \cup {"emailToLabel"}
    /\ UNCHANGED <<email, userLabels, labelReq>>
    /\ UNCHANGED nonLabelVars

\* the user submits the creation form: handleSubmit builds fields.labels
HandleSubmit ==
    /\ "handleSubmit" \notin labelDone
    /\ userLabels' = FormUserLabels(email)
    /\ labelDone' = labelDone \cup {"handleSubmit"}
    /\ UNCHANGED <<email, label, labelReq>>
    /\ UNCHANGED nonLabelVars

\* GET /api/tickets/user/:userEmail builds the label of its query; the route
\* only matches a non-empty :userEmail
GetUserTickets ==
    /\ "userTickets" \notin labelDone
    /\ email # <<>>
    /\ labelReq' = RouteLabelReq(email)
    /\ labelDone' = labelDone \cup {"userTickets"}
    /\ UNCHANGED <<email, label, userLabels>>
    /\ UNCHANGED nonLabelVars

LabelNext ==
    \/ CallEmailToLabel
    \/ HandleSubmit
    \/ GetUserTickets

SpecLabel == LabelInit /\ [][LabelNext]_vars

----------------------------------------------------------------------------
(* Properties of the requester labels *)

UpperSet == {UpperLetters[k] : k \in 1..26}

\* C9: emailToLabel(e) is 'req-' followed by the lower-cased identifier with
\* every character outside [a-z0-9_-] replaced by '-': the label holds only
\* lowercase letters, digits, '_' and '-'.
C9_LabelIsSanitizedLowerCase ==
    ("emailToLabel" \in labelDone) =>
        /\ Len(label) = Len(email) + 4
        /\ SubSeq(label, 1, 4) = <<"r", "e", "q", "-">>
        /\ \A i \in 1..Len(email) :
              LET c == email[i]
                  d == label[i + 4]
              IN /\ c \in LowerSet \cup Digits \cup {"_", "-"} => d = c
                 /\ c \in UpperSet => (d \in LowerSet /\ SameIgnoringCase(c, d))
                 /\ c \notin LowerSet \cup UpperSet \cup Digits \cup {"_", "-"} => d = "-"
        /\ \A j \in 1..Len(label) :
              /\ label[j] \in LowerSet \cup Digits \cup {"_", "-"}
              /\ label[j] \notin UpperSet \cup {"@", ".", "+"}

C9_Witness ==
    /\ "emailToLabel" \in labelDone
    /\ email = <<"B", "@", "a">>
    /\ label = <<"r", "e", "q", "-", "b", "-", "a">>

\* C10: the req- label the creation form attaches to a ticket equals the
\* req- label the user's ticket query searches for, for the same email.
C10_FormLabelMatchesQueryLabel ==
    ({"handleSubmit", "userTickets"} \subseteq labelDone) =>
        userLabels = <<labelReq>>

----------------------------------------------------------------------------
(* Resource routes and health probe of the proxy, server/index.js *)

CreateIssue == "POST /api/issues"
GetIssue == "GET /api/issues/:issueKey"
DoTransition == "POST /api/issues/:issueKey/transitions"
AddComment == "POST /api/issues/:issueKey/comments"
UpdateComment == "PUT /api/issues/:issueKey/comments/:commentId"
Health == "GET /api/health"

ResourceRoutes == {CreateIssue, GetIssue, DoTransition, AddComment, UpdateComment}

\* a faulty summary check that lacks summary.trim() === ''
SummaryRejectedNoTrim(summary) == ~TextTruthy(summary)

\* !summary || summary.trim() === ''
SummaryRejected(summary) == ~TextTruthy(summary) \/ ~TrimTruthy(summary)

\* the validation of POST /api/issues: the error of the 400 answer, or "" when
\* the four checks pass
CreateIssueInvalid(b) ==
    IF ~b.hasFields THEN "O campo \"fields\" e obrigatorio"
    ELSE IF ~StringTruthy(b.project) THEN "Projeto e obrigatorio"
    ELSE IF ~StringTruthy(b.issuetype) THEN "Tipo de issue e obrigatorio"
    ELSE IF SummaryRejected(b.summary) THEN "Resumo e obrigatorio"
    ELSE ""

\* if (!transition?.id)
TransitionInvalid(b) ==
    IF ~b.hasTransition \/ ~StringTruthy(b.transitionId)
    THEN "transition.id e obrigatorio" ELSE ""

\* if (!body)
AddCommentInvalid(b) ==
    IF ~StringTruthy(b.body) THEN "O corpo do comentario e obrigatorio" ELSE ""

\* the update of a comment checks nothing before it calls the upstream
UpdateCommentInvalid(b) == ""

\* the validation a route runs before it calls jiraRequest
Invalid(r, b) ==
    CASE r = CreateIssue -> CreateIssueInvalid(b)
      [] r = DoTransition -> TransitionInvalid(b)
      [] r = AddComment -> AddCommentInvalid(b)
      [] r = UpdateComment -> UpdateCommentInvalid(b)
      [] OTHER -> ""

\* the status a resource route answers with when the upstream call succeeds
SuccessStatus(r) ==
    CASE r = CreateIssue -> 201
      [] r = AddComment -> 201
      [] r = DoTransition -> 204
      [] OTHER -> 200

\* a faulty getAuthHeaders that only looks at the email
CredentialsMissingEmailOnly(c) == "email" \notin c

\* if (!email || !apiToken) throw new Error(...)
CredentialsMissing(c) == "email" \notin c \/ "apiToken" \notin c

CredentialsMessage == "Credenciais do Jira nao encontradas."

\* errorJson.errorMessages.join(', ')
RECURSIVE JoinComma(_)
JoinComma(ms) ==
    IF ms = <<>> THEN ""
    ELSE IF Len(ms) = 1 THEN ms[1]
    ELSE ms[1] \o ", " \o JoinComma(Tail(ms))

\* errorJson.errorMessages?.join(', ')
JoinedErrorMessages(b) ==
    IF b.hasErrorMessages THEN JoinComma(b.errorMessages) ELSE Undefined

\* a faulty extraction that prefers message to errorMessages
ExtractMessagePreferMessage(b) ==
    IF ~b.json THEN b.raw
    ELSE IF StringTruthy(b.message) THEN b.message
    ELSE IF StringTruthy(JoinedErrorMessages(b)) THEN JoinedErrorMessages(b)
    ELSE IF StringTruthy(b.errors) THEN b.errors
    ELSE b.raw

\* errorJson.errorMessages?.join(', ') || errorJson.message ||
\* JSON.stringify(errorJson.errors) || errorBody, and errorBody when the body is
\* not JSON
ExtractMessage(b) ==
    IF ~b.json THEN b.raw
    ELSE IF StringTruthy(JoinedErrorMessages(b)) THEN JoinedErrorMessages(b)
    ELSE IF StringTruthy(b.message) THEN b.message
    ELSE IF StringTruthy(b.errors) THEN b.errors
    ELSE b.raw

\* new Error(`Jira API Error: ${errorMessage}`) with error.status set
JiraError(s, b) ==
    [kind |-> "http", message |-> "Jira API Error: " \o ExtractMessage(b),
     status |-> s]

\* the Error thrown by getAuthHeaders
CredentialsError ==
    [kind |-> "local", message |-> CredentialsMessage, status |-> NoStatus]

\* the SyntaxError thrown by JSON.parse of a 2xx body that is not JSON
ParseError ==
    [kind |-> "parse", message |-> "Unexpected token", status |-> NoStatus]

\* a faulty health route that answers 200 whatever the probe gave
HealthStatusAlways200(connected) == 200

\* const statusCode = health.jira.connected ? 200 : 503
HealthStatus(connected) == IF connected THEN 200 ELSE 503

\* the health object after a failed probe
HealthDown(error) ==
    [kind |-> "health", connected |-> FALSE, error |-> error.message]

\* the health object after a successful probe
HealthUp == [kind |-> "health", connected |-> TRUE, error |-> Undefined]

\* the bodies of the 4xx and 5xx answers of the upstream in the model
ErrorBodies ==
    {[json |-> FALSE, hasErrorMessages |-> FALSE, errorMessages |-> <<>>,
      message |-> Undefined, errors |-> Undefined, raw |-> "Bad Gateway"]}
    \cup
    {[json |-> TRUE, hasErrorMessages |-> h, errorMessages |-> ms,
      message |-> m, errors |-> e, raw |-> "{...}"] :
        h \in BOOLEAN, ms \in {<<>>, <<"m1">>, <<"m1", "m2">>},
        m \in {Undefined, "", "msg"}, e \in {Undefined, "{\"f\":\"e\"}"}}

\* the summaries a creation request may carry
Summaries == {Missing, <<>>, <<" ">>, <<NL, " ">>, <<"a">>, <<" ", "a">>}

\* the request bodies a route may be called with in the model
RequestBodies(r) ==
    CASE r = CreateIssue ->
           {NoRequestBody} \cup
           {[NoRequestBody EXCEPT !.hasFields = TRUE, !.project = p,
                                  !.issuetype = t, !.summary = sm] :
               p \in {Undefined, "PROJ"}, t \in {Undefined, "Task"},
               sm \in Summaries}
      [] r = DoTransition ->
           {NoRequestBody} \cup
           {[NoRequestBody EXCEPT !.hasTransition = TRUE, !.transitionId = i] :
               i \in {Undefined, "", "31"}}
      [] r \in {AddComment, UpdateComment} ->
           {[NoRequestBody EXCEPT !.body = c] : c \in {Undefined, "", "text"}}
      [] OTHER -> {NoRequestBody}

\* the route answers 400 before it calls jiraRequest
MustReject(r, b) == Invalid(r, b) # ""

ProxyInit ==
    /\ proxyPc = "idle"
    /\ proxyRoute = ""
    /\ reqBody = NoRequestBody
    /\ credentials \in SUBSET {"email", "apiToken"}
    /\ upstreamCalls = 0
    /\ upstreamAnswer = NoAnswer
    /\ proxyStatus = 0
    /\ proxyBody = NoBody
    \* the other parts of the model are not running
    /\ pc = "off" /\ fetchAll = FALSE /\ allIssues = <<>> /\ nextPageToken = NoToken
    /\ isLast = FALSE /\ requests = <<>> /\ responses = <<>> /\ failure = NoError
    /\ resStatus = 0 /\ resBody = NoBody
    /\ adfPc = "off" /\ text = <<>> /\ adfDocument = NoDocument /\ plainText = <<>>
    /\ commentPc = "off" /\ comment = NoComment /\ isInternal = FALSE
    /\ commentType = ""
    /\ labelDone = {} /\ email = <<>> /\ label = <<>> /\ userLabels = <<>>
    /\ labelReq = <<>>
    /\ retryPc = "off" /\ apiCall = NoApiCall /\ retries = 0 /\ attempts = 0
    /\ delays = <<>> /\ fetchFailures = <<>> /\ outcome = NoOutcome
    /\ delivered = 0
    /\ appPc = "off" /\ authLoading = FALSE /\ authUser = NoUser /\ loading = FALSE
    /\ appError = NoAppError /\ showCreateForm = FALSE /\ selectedTicket = 0
    /\ pendingLoads = 0 /\ effectEmail = Undefined /\ screen = ""
    /\ allTickets = <<>> /\ lastLoad = "none"
    /\ resolvePc = "off" /\ ticketProp = "" /\ detailedTicket = NoTicket /\ detailLoading = FALSE
    /\ detailError = NoDetailError /\ detailLoads = <<>> /\ awaitedLoad = 0
    /\ resolving = FALSE /\ resolutionComment = <<>> /\ showResolveModal = FALSE
    /\ resolveCalls = <<>> /\ ticketResolved = {} /\ resolutionPosted = {}
    /\ alerted = ""
    /\ relPc = "off" /\ dateInput = NoDate /\ relativeDate = NoRelativeDate
    /\ dashPc = "off" /\ dashboardTickets = <<>> /\ filter = "" /\ searchTerm = ""
    /\ displayedTickets = <<>>

\* the route's catch (resource routes) or the probe's catch (health) answers
\* with the Error thrown by jiraRequest
AnswerFailure(r, error) ==
    /\ proxyPc' = "responded"
    /\ IF r = Health
       THEN /\ proxyStatus' = HealthStatus(FALSE)
            /\ proxyBody' = HealthDown(error)
       ELSE /\ proxyStatus' = RouteErrorStatus(error)
            /\ proxyBody' = RouteErrorBody(error)

\* a resource route is called with a body its validation rejects: 400, and
\* jiraRequest is not called
RejectRequest ==
    /\ proxyPc = "idle"
    /\ \E r \in ResourceRoutes : \E b \in RequestBodies(r) :
        /\ MustReject(r, b)
        /\ proxyRoute' = r
        /\ reqBody' = b
        /\ proxyPc' = "responded"
        /\ proxyStatus' = 400
        /\ proxyBody' = [kind |-> "error", error |-> Invalid(r, b)]
    /\ UNCHANGED <<credentials, upstreamCalls, upstreamAnswer>>
    /\ UNCHANGED nonProxyVars

\* a route calls jiraRequest and getAuthHeaders throws: fetch is not called
FailLocally ==
    /\ proxyPc = "idle"
    /\ CredentialsMissing(credentials)
    /\ \E r \in ResourceRoutes \cup {Health} : \E b \in RequestBodies(r) :
        /\ ~MustReject(r, b)
        /\ proxyRoute' = r
        /\ reqBody' = b
        /\ AnswerFailure(r, CredentialsError)
    /\ UNCHANGED <<credentials, upstreamCalls, upstreamAnswer>>
    /\ UNCHANGED nonProxyVars

\* a route calls jiraRequest, which calls fetch
SendUpstream ==
    /\ proxyPc = "idle"
    /\ ~CredentialsMissing(credentials)
    /\ \E r \in ResourceRoutes \cup {Health} : \E b \in RequestBodies(r) :
        /\ ~MustReject(r, b)
        /\ proxyRoute' = r
        /\ reqBody' = b
    /\ proxyPc' = "await"
    /\ upstreamCalls' = upstreamCalls + 1
    /\ UNCHANGED <<credentials, upstreamAnswer, proxyStatus, proxyBody>>
    /\ UNCHANGED nonProxyVars

\* the upstream answers 2xx with a body jiraRequest can return
UpstreamSucceeds ==
    /\ proxyPc = "await"
    /\ upstreamAnswer' = [kind |-> "ok"]
    /\ proxyPc' = "responded"
    /\ IF proxyRoute = Health
       THEN /\ proxyStatus' = HealthStatus(TRUE)
            /\ proxyBody' = HealthUp
       ELSE /\ proxyStatus' = SuccessStatus(proxyRoute)
            /\ proxyBody' = [kind |-> "data"]
    /\ UNCHANGED <<proxyRoute, reqBody, credentials, upstreamCalls>>
    /\ UNCHANGED nonProxyVars

\* the upstream answers 2xx with a body that is not JSON: JSON.parse throws
UpstreamUnparsable ==
    /\ proxyPc = "await"
    /\ upstreamAnswer' = [kind |-> "unparsable"]
    /\ AnswerFailure(proxyRoute, ParseError)
    /\ UNCHANGED <<proxyRoute, reqBody, credentials, upstreamCalls>>
    /\ UNCHANGED nonProxyVars

\* the upstream answers with a non-2xx status: jiraRequest throws JiraError
UpstreamFails ==
    /\ proxyPc = "await"
    /\ \E s \in UpstreamErrorStatuses : \E b \in ErrorBodies :
        /\ upstreamAnswer' = [kind |-> "http", status |-> s, body |-> b]
        /\ AnswerFailure(proxyRoute, JiraError(s, b))
    /\ UNCHANGED <<proxyRoute, reqBody, credentials, upstreamCalls>>
    /\ UNCHANGED nonProxyVars

\* fetch rejects: the upstream cannot be reached
FetchRejects ==
    /\ proxyPc = "await"
    /\ upstreamAnswer' = [kind |-> "transport"]
    /\ AnswerFailure(proxyRoute, TransportError)
    /\ UNCHANGED <<proxyRoute, reqBody, credentials, upstreamCalls>>
    /\ UNCHANGED nonProxyVars

ProxyNext ==
    \/ RejectRequest
    \/ FailLocally
    \/ SendUpstream
    \/ UpstreamSucceeds
    \/ UpstreamUnparsable
    \/ UpstreamFails
    \/ FetchRejects

SpecProxy == ProxyInit /\ [][ProxyNext]_vars

----------------------------------------------------------------------------
(* Properties of the resource routes and of the health probe *)

\* the string is empty or holds white space only
BlankString(t) == \A i \in 1..Len(t) : t[i] \in Whitespace

\* the route has been called
Called(r) == proxyRoute = r /\ proxyPc # "idle"

\* C11: POST /api/issues answers 400 without any upstream call when the
\* request has no fields object, no project, no issue type, or a summary that
\* is missing, empty or white space only; an upstream call is made only when
\* all four checks pass.
C11_CreateIssueValidatedFirst ==
    Called(CreateIssue) =>
        LET b == reqBody
            bad == \/ ~b.hasFields
                   \/ b.project \in {Undefined, ""}
                   \/ b.issuetype \in {Undefined, ""}
                   \/ b.summary = Missing
                   \/ BlankString(b.summary)
        IN /\ bad => (proxyPc = "responded" /\ proxyStatus = 400
                      /\ upstreamCalls = 0)
           /\ upstreamCalls > 0 => ~bad

C11_Witness ==
    /\ Called(CreateIssue)
    /\ reqBody.hasFields /\ reqBody.project = "PROJ"
    /\ reqBody.issuetype = "Task" /\ reqBody.summary = <<NL, " ">>
    /\ proxyStatus = 400
    /\ upstreamCalls = 0

\* C12: adding or updating a comment with no body, and executing a
\* transition with no transition id, are answered 400 before any upstream
\* call.
C12_BodylessRequestsRejected ==
    /\ (Called(AddComment) \/ Called(UpdateComment))
         /\ reqBody.body \in {Undefined, ""}
       => (proxyPc = "responded" /\ proxyStatus = 400 /\ upstreamCalls = 0)
    /\ Called(DoTransition)
         /\ (~reqBody.hasTransition \/ reqBody.transitionId \in {Undefined, ""})
       => (proxyPc = "responded" /\ proxyStatus = 400 /\ upstreamCalls = 0)

\* the message the proxy is to relay for an upstream error body
RelayedMessage(b) ==
    LET joined == IF b.errorMessages = <<"m1", "m2">> THEN "m1, m2"
                  ELSE IF b.errorMessages = <<"m1">> THEN "m1" ELSE ""
    IN IF b.json /\ b.hasErrorMessages /\ joined # "" THEN joined
       ELSE IF b.json /\ b.message \notin {Undefined, ""} THEN b.message
       ELSE IF b.json /\ b.errors # Undefined THEN b.errors
       ELSE b.raw

\* C13: when the upstream answers a proxied call with a non-2xx status s, the
\* resource route answers with status s and a JSON error that carries the
\* extracted message (joined errorMessages, else message, else the errors
\* object, else the raw text); the failure is never answered as a success.
C13_UpstreamStatusRelayed ==
    (proxyRoute \in ResourceRoutes /\ upstreamAnswer.kind = "http") =>
        /\ proxyPc = "responded"
        /\ proxyStatus = upstreamAnswer.status
        /\ proxyStatus \notin 200..299
        /\ proxyBody.kind = "error"
        /\ proxyBody.error =
             "Jira API Error: " \o RelayedMessage(upstreamAnswer.body)

C13_Witness ==
    /\ proxyRoute = GetIssue
    /\ upstreamAnswer.kind = "http"
    /\ upstreamAnswer.status = 400
    /\ upstreamAnswer.body.hasErrorMessages
    /\ upstreamAnswer.body.errorMessages = <<"m1", "m2">>
    /\ upstreamAnswer.body.message = "msg"
    /\ proxyStatus = 400
    /\ proxyBody = [kind |-> "error", error |-> "Jira API Error: m1, m2"]

C16_HealthAlwaysAnswers ==
    /\ [](Called(Health) /\ proxyPc = "responded" =>
            IF upstreamAnswer.kind = "ok"
            THEN proxyStatus = 200 /\ proxyBody.connected = TRUE
            ELSE /\ proxyStatus = 503
                 /\ proxyBody.connected = FALSE
                 /\ proxyBody.error \notin {Undefined, ""})
    /\ [][(proxyRoute = Health /\ proxyPc = "await") =>
             (proxyPc' = "responded" /\ proxyStatus' \in {200, 503})]_vars
    /\ [][(proxyPc = "idle" /\ proxyRoute' = Health) =>
             (proxyPc' = "await" \/
              (proxyPc' = "responded" /\ proxyStatus' = 503))]_vars

C16_Witness ==
    /\ Called(Health)
    /\ upstreamAnswer.kind = "unparsable"
    /\ proxyStatus = 503
    /\ proxyBody.connected = FALSE
    /\ proxyBody.error = "Unexpected token"

----------------------------------------------------------------------------
(* apiRequest and fetchWithRetry, src/api/jira.js 295-400 *)

\* REQUEST_CONFIG
RequestTimeout == 30000
RetryAttempts == 3
RetryDelay == 1000

\* new RequestTimeoutError(url, REQUEST_CONFIG.timeout)
RequestTimeoutError ==
    [kind |-> "thrown", name |-> "RequestTimeoutError", status |-> 408,
     timeout |-> RequestTimeout]

\* the TypeError with which fetch rejects on a network failure, rethrown as it
\* is
NetworkError == [kind |-> "thrown", name |-> "TypeError", status |-> 0]

\* processResponse: the parsed data of a 2xx answer, a JiraApiError otherwise
ProcessResponse(status) ==
    IF status \in 200..299
    THEN [kind |-> "returned", name |-> "data", status |-> status]
    ELSE [kind |-> "thrown", name |-> "JiraApiError", status |-> status]

\* the calls the browser makes in the model
ApiCalls ==
    {[endpoint |-> e, method |-> m] :
        e \in {"/tickets", "/user", "/issues"}, m \in {"GET", "POST"}}

\* the statuses the proxy answers with in the model
ProxyStatuses == {200, 204, 400, 404, 500}

RetryInit ==
    /\ retryPc = "idle"
    /\ apiCall = NoApiCall
    /\ retries = 0
    /\ attempts = 0
    /\ delays = <<>>
    /\ fetchFailures = <<>>
    /\ outcome = NoOutcome
    /\ delivered = 0
    \* the other parts of the model are not running
    /\ pc = "off" /\ fetchAll = FALSE /\ allIssues = <<>> /\ nextPageToken = NoToken
    /\ isLast = FALSE /\ requests = <<>> /\ responses = <<>> /\ failure = NoError
    /\ resStatus = 0 /\ resBody = NoBody
    /\ adfPc = "off" /\ text = <<>> /\ adfDocument = NoDocument /\ plainText = <<>>
    /\ commentPc = "off" /\ comment = NoComment /\ isInternal = FALSE
    /\ commentType = ""
    /\ labelDone = {} /\ email = <<>> /\ label = <<>> /\ userLabels = <<>>
    /\ labelReq = <<>>
    /\ proxyPc = "off" /\ proxyRoute = "" /\ reqBody = NoRequestBody /\ credentials = {}
    /\ upstreamCalls = 0 /\ upstreamAnswer = NoAnswer /\ proxyStatus = 0
    /\ proxyBody = NoBody
    /\ appPc = "off" /\ authLoading = FALSE /\ authUser = NoUser /\ loading = FALSE
    /\ appError = NoAppError /\ showCreateForm = FALSE /\ selectedTicket = 0
    /\ pendingLoads = 0 /\ effectEmail = Undefined /\ screen = ""
    /\ allTickets = <<>> /\ lastLoad = "none"
    /\ resolvePc = "off" /\ ticketProp = "" /\ detailedTicket = NoTicket /\ detailLoading = FALSE
    /\ detailError = NoDetailError /\ detailLoads = <<>> /\ awaitedLoad = 0
    /\ resolving = FALSE /\ resolutionComment = <<>> /\ showResolveModal = FALSE
    /\ resolveCalls = <<>> /\ ticketResolved = {} /\ resolutionPosted = {}
    /\ alerted = ""
    /\ relPc = "off" /\ dateInput = NoDate /\ relativeDate = NoRelativeDate
    /\ dashPc = "off" /\ dashboardTickets = <<>> /\ filter = "" /\ searchTerm = ""
    /\ displayedTickets = <<>>

\* a faulty test that retries once more
MayRetryOnceMore(r) == r >= 0

\* if (retries > 0)
MayRetry(r) == r > 0

\* a fetch that rejects or is aborted may or may not have reached the proxy:
\* the connection can break after the request was received
MaybeDelivered == delivered' \in {delivered, delivered + 1}

\* apiRequest calls fetchWithRetry(url, fetchOptions), which calls fetch
ApiRequest ==
    /\ retryPc = "idle"
    /\ \E c \in ApiCalls : apiCall' = c
    /\ retries' = RetryAttempts
    /\ attempts' = 1
    /\ retryPc' = "fetching"
    /\ UNCHANGED <<delays, fetchFailures, outcome, delivered>>
    /\ UNCHANGED nonRetryVars

\* fetch resolves: fetchWithRetry returns the response, processResponse turns
\* it into data or into a JiraApiError
FetchResolves ==
    /\ retryPc = "fetching"
    /\ \E s \in ProxyStatuses : outcome' = ProcessResponse(s)
    /\ retryPc' = "done"
    /\ delivered' = delivered + 1
    /\ UNCHANGED <<apiCall, retries, attempts, delays, fetchFailures>>
    /\ UNCHANGED nonRetryVars

\* the timeout aborts fetch: error.name === 'AbortError'
FetchTimesOut ==
    /\ retryPc = "fetching"
    /\ fetchFailures' = Append(fetchFailures, "timeout")
    /\ outcome' = RequestTimeoutError
    /\ retryPc' = "done"
    /\ MaybeDelivered
    /\ UNCHANGED <<apiCall, retries, attempts, delays>>
    /\ UNCHANGED nonRetryVars

\* fetch rejects with a network failure and retries > 0: wait retryDelay
NetworkFailureRetry ==
    /\ retryPc = "fetching"
    /\ MayRetry(retries)
    /\ fetchFailures' = Append(fetchFailures, "network")
    /\ retryPc' = "waiting"
    /\ MaybeDelivered
    /\ UNCHANGED <<apiCall, retries, attempts, delays, outcome>>
    /\ UNCHANGED nonRetryVars

\* the delay has elapsed: return fetchWithRetry(url, options, retries - 1)
DelayElapsed ==
    /\ retryPc = "waiting"
    /\ delays' = Append(delays, RetryDelay)
    /\ retries' = retries - 1
    /\ attempts' = attempts + 1
    /\ retryPc' = "fetching"
    /\ UNCHANGED <<apiCall, fetchFailures, outcome, delivered>>
    /\ UNCHANGED nonRetryVars

\* fetch rejects with a network failure and retries is 0: throw error
NetworkFailureGiveUp ==
    /\ retryPc = "fetching"
    /\ ~MayRetry(retries)
    /\ fetchFailures' = Append(fetchFailures, "network")
    /\ outcome' = NetworkError
    /\ retryPc' = "done"
    /\ MaybeDelivered
    /\ UNCHANGED <<apiCall, retries, attempts, delays>>
    /\ UNCHANGED nonRetryVars

RetryNext ==
    \/ ApiRequest
    \/ FetchResolves
    \/ FetchTimesOut
    \/ NetworkFailureRetry
    \/ DelayElapsed
    \/ NetworkFailureGiveUp

SpecRetry == RetryInit /\ [][RetryNext]_vars

\* C15: a browser API call that fails by network failure or by exceeding the
\* timeout has been retried retryAttempts = 3 times, with a delay of 1000 ms
\* before each retry, and its caller receives RequestTimeoutError.
C15_FailedCallRetriedThenTimeoutError ==
    \* the call is over and its last fetch failed
    (retryPc = "done" /\ Len(fetchFailures) = attempts) =>
        /\ attempts = 1 + 3
        /\ delays = <<1000, 1000, 1000>>
        /\ outcome.name = "RequestTimeoutError"

\* every fetch settles (it resolves, rejects or is aborted by the timeout) and
\* every delay elapses
SpecRetryFair == SpecRetry /\ WF_vars(RetryNext)

\* C21: one fetchWithRetry call makes at most 1 + retryAttempts = 4 fetch
\* attempts, returns the first response it obtains without a further attempt,
\* never retries a response with a non-2xx status, and always ends with a
\* response or an error.
C21_RetryBoundedAndTerminates ==
    /\ [](/\ attempts <= 4
          /\ retryPc = "done" => outcome.kind \in {"returned", "thrown"}
          \* a response, whatever its status, came from the only attempt that
          \* did not fail
          /\ (retryPc = "done" /\ outcome.name \in {"data", "JiraApiError"})
                => Len(fetchFailures) = attempts - 1)
    \* nothing happens after the outcome
    /\ [][retryPc # "done"]_vars
    \* a further attempt only follows an attempt that failed in fetch
    /\ [][(attempts' > attempts /\ attempts > 0) =>
             (retryPc = "waiting" /\ Len(fetchFailures) = attempts)]_vars
    /\ <>(retryPc = "done")

C21_Witness ==
    /\ retryPc = "done"
    /\ attempts = 4
    /\ fetchFailures = <<"network", "network", "network">>
    /\ outcome = [kind |-> "thrown", name |-> "JiraApiError", status |-> 500]

\* C23: one invocation of a mutating browser API function sends its POST
\* request at most once, whatever network failures occur, so the proxy never
\* receives it twice.
C23_PostSentAtMostOnce ==
    (apiCall.method = "POST") => (attempts <= 1 /\ delivered <= 1)

----------------------------------------------------------------------------
(* The App component, App.js *)

\* the values useAuth() may give for user
AuthUsers ==
    {NoUser, [present |-> TRUE, email |-> Undefined],
     [present |-> TRUE, email |-> "a@x"], [present |-> TRUE, email |-> "b@x"]}

\* authUser?.email
EmailOf(u) == IF u.present THEN u.email ELSE Undefined

\* a faulty render that looks at the ticket-loading state before the user
RenderLoadingBeforeLogin(aLoading, aUser, tLoading, err, form) ==
    IF aLoading THEN "auth-loading"
    ELSE IF tLoading THEN "tickets-loading"
    ELSE IF ~aUser.present THEN "login"
    ELSE IF err \notin {NoAppError, ""} THEN "error"
    ELSE IF form THEN "create-form"
    ELSE "dashboard"

\* the chain of returns of App: the screen that is rendered
Render(aLoading, aUser, tLoading, err, form) ==
    IF aLoading THEN "auth-loading"
    ELSE IF ~aUser.present THEN "login"
    ELSE IF tLoading THEN "tickets-loading"
    ELSE IF err \notin {NoAppError, ""} THEN "error"
    ELSE IF form THEN "create-form"
    ELSE "dashboard"

\* the component renders again after a change of its state
Rendered ==
    screen' = Render(authLoading', authUser', loading', appError',
                     showCreateForm')

\* ticketsData.issues || ticketsData of a successful load
TicketLists == {<<>>, <<"T-1">>, <<"T-1", "T-2">>}

AppInit ==
    /\ appPc = "mounted"
    /\ authLoading \in BOOLEAN
    /\ authUser \in AuthUsers
    /\ loading = TRUE
    /\ appError = NoAppError
    /\ showCreateForm = FALSE
    /\ selectedTicket = 0
    /\ pendingLoads = 0
    /\ effectEmail = "not run"
    /\ screen = Render(authLoading, authUser, TRUE, NoAppError, FALSE)
    /\ allTickets = <<>>
    /\ lastLoad = "none"
    \* the other parts of the model are not running
    /\ pc = "off" /\ fetchAll = FALSE /\ allIssues = <<>> /\ nextPageToken = NoToken
    /\ isLast = FALSE /\ requests = <<>> /\ responses = <<>> /\ failure = NoError
    /\ resStatus = 0 /\ resBody = NoBody
    /\ adfPc = "off" /\ text = <<>> /\ adfDocument = NoDocument /\ plainText = <<>>
    /\ commentPc = "off" /\ comment = NoComment /\ isInternal = FALSE
    /\ commentType = ""
    /\ labelDone = {} /\ email = <<>> /\ label = <<>> /\ userLabels = <<>>
    /\ labelReq = <<>>
    /\ proxyPc = "off" /\ proxyRoute = "" /\ reqBody = NoRequestBody /\ credentials = {}
    /\ upstreamCalls = 0 /\ upstreamAnswer = NoAnswer /\ proxyStatus = 0
    /\ proxyBody = NoBody
    /\ retryPc = "off" /\ apiCall = NoApiCall /\ retries = 0 /\ attempts = 0
    /\ delays = <<>> /\ fetchFailures = <<>> /\ outcome = NoOutcome
    /\ delivered = 0
    /\ resolvePc = "off" /\ ticketProp = "" /\ detailedTicket = NoTicket /\ detailLoading = FALSE
    /\ detailError = NoDetailError /\ detailLoads = <<>> /\ awaitedLoad = 0
    /\ resolving = FALSE /\ resolutionComment = <<>> /\ showResolveModal = FALSE
    /\ resolveCalls = <<>> /\ ticketResolved = {} /\ resolutionPosted = {}
    /\ alerted = ""
    /\ relPc = "off" /\ dateInput = NoDate /\ relativeDate = NoRelativeDate
    /\ dashPc = "off" /\ dashboardTickets = <<>> /\ filter = "" /\ searchTerm = ""
    /\ displayedTickets = <<>>

\* loadData up to its await: return when there is no email, else
\* setLoading(true), setError(null) and start the two fetches
LoadData ==
    IF EmailOf(authUser') = Undefined
    THEN UNCHANGED <<loading, appError, pendingLoads>>
    ELSE /\ loading' = TRUE
         /\ appError' = NoAppError
         /\ pendingLoads' = pendingLoads + 1

\* useAuth() gives new values
AuthChanges ==
    /\ appPc = "mounted"
    /\ \E al \in BOOLEAN : \E u \in AuthUsers :
        /\ <<al, u>> # <<authLoading, authUser>>
        /\ authLoading' = al
        /\ authUser' = u
    /\ UNCHANGED <<appPc, loading, appError, showCreateForm, selectedTicket,
                   pendingLoads, effectEmail>>
    /\ UNCHANGED <<allTickets, lastLoad>>
    /\ Rendered
    /\ UNCHANGED nonAppVars

\* useEffect(..., [authUser?.email]) after mount and after a change of email
RunEffect ==
    /\ appPc = "mounted"
    /\ effectEmail # EmailOf(authUser)
    /\ effectEmail' = EmailOf(authUser)
    /\ UNCHANGED <<appPc, authLoading, authUser, showCreateForm, selectedTicket>>
    /\ IF EmailOf(authUser) # Undefined
       THEN pendingLoads < MaxPendingLoads /\ LoadData
       ELSE loading' = FALSE /\ UNCHANGED <<appError, pendingLoads>>
    /\ UNCHANGED <<allTickets, lastLoad>>
    /\ Rendered
    /\ UNCHANGED nonAppVars

\* both fetches of a loadData resolve: setUser, setAllTickets, then finally
\* setLoading(false)
LoadSucceeds ==
    /\ pendingLoads > 0
    /\ pendingLoads' = pendingLoads - 1
    /\ \E issues \in TicketLists : allTickets' = issues
    /\ lastLoad' = "ok"
    /\ loading' = FALSE
    /\ UNCHANGED <<appPc, authLoading, authUser, appError, showCreateForm,
                   selectedTicket, effectEmail>>
    /\ Rendered
    /\ UNCHANGED nonAppVars

\* a fetch of a loadData rejects: setError(err.message), then finally
\* setLoading(false)
LoadFails ==
    /\ pendingLoads > 0
    /\ pendingLoads' = pendingLoads - 1
    /\ \E m \in {"Network Error", ""} : appError' = m
    /\ lastLoad' = "failed"
    /\ loading' = FALSE
    /\ UNCHANGED allTickets
    /\ UNCHANGED <<appPc, authLoading, authUser, showCreateForm,
                   selectedTicket, effectEmail>>
    /\ Rendered
    /\ UNCHANGED nonAppVars

\* Try Again of the error screen, refresh of the dashboard, onSuccess of the
\* create form: loadData
HandleRefresh ==
    /\ screen \in {"error", "dashboard", "create-form"}
    /\ pendingLoads < MaxPendingLoads
    /\ UNCHANGED <<appPc, authLoading, authUser, showCreateForm,
                   selectedTicket, effectEmail>>
    /\ LoadData
    /\ UNCHANGED <<allTickets, lastLoad>>
    /\ Rendered
    /\ UNCHANGED nonAppVars

\* onCreateRequest of the dashboard
HandleCreateRequest ==
    /\ screen = "dashboard"
    /\ showCreateForm' = TRUE
    /\ UNCHANGED <<appPc, authLoading, authUser, loading, appError,
                   selectedTicket, pendingLoads, effectEmail>>
    /\ UNCHANGED <<allTickets, lastLoad>>
    /\ Rendered
    /\ UNCHANGED nonAppVars

\* onClose of the create form
CloseCreateForm ==
    /\ screen = "create-form"
    /\ showCreateForm' = FALSE
    /\ UNCHANGED <<appPc, authLoading, authUser, loading, appError,
                   selectedTicket, pendingLoads, effectEmail>>
    /\ UNCHANGED <<allTickets, lastLoad>>
    /\ Rendered
    /\ UNCHANGED nonAppVars

\* onTicketClick of the dashboard
HandleTicketClick ==
    /\ screen = "dashboard"
    /\ selectedTicket = 0
    /\ selectedTicket' = 1
    /\ UNCHANGED <<appPc, authLoading, authUser, loading, appError,
                   showCreateForm, pendingLoads, effectEmail>>
    /\ UNCHANGED <<allTickets, lastLoad>>
    /\ Rendered
    /\ UNCHANGED nonAppVars

\* onClose of the issue details
CloseIssueDetails ==
    /\ screen = "dashboard"
    /\ selectedTicket # 0
    /\ selectedTicket' = 0
    /\ UNCHANGED <<appPc, authLoading, authUser, loading, appError,
                   showCreateForm, pendingLoads, effectEmail>>
    /\ UNCHANGED <<allTickets, lastLoad>>
    /\ Rendered
    /\ UNCHANGED nonAppVars

AppNext ==
    \/ AuthChanges
    \/ RunEffect
    \/ LoadSucceeds
    \/ LoadFails
    \/ HandleRefresh
    \/ HandleCreateRequest
    \/ CloseCreateForm
    \/ HandleTicketClick
    \/ CloseIssueDetails

SpecApp == AppInit /\ [][AppNext]_vars

\* C17: the App renders exactly one screen: the auth loading screen whenever
\* authentication is loading; otherwise the login screen whenever there is no
\* user, both whatever the ticket-loading, error and create-form state are;
\* for an authenticated user the ticket-loading screen, else the error
\* screen, else the create form, else the dashboard.
C17_ScreenPrecedence ==
    LET authenticated == ~authLoading /\ authUser # NoUser
        hasError == appError \notin {NoAppError, ""}
    IN /\ screen \in {"auth-loading", "login", "tickets-loading", "error",
                      "create-form", "dashboard"}
       /\ authLoading => screen = "auth-loading"
       /\ (~authLoading /\ authUser = NoUser) => screen = "login"
       /\ (authenticated /\ loading) => screen = "tickets-loading"
       /\ (authenticated /\ ~loading /\ hasError) => screen = "error"
       /\ (authenticated /\ ~loading /\ ~hasError /\ showCreateForm)
            => screen = "create-form"
       /\ (authenticated /\ ~loading /\ ~hasError /\ ~showCreateForm)
            => screen = "dashboard"

C17_Witness ==
    /\ ~authLoading
    /\ authUser = NoUser
    /\ appError = "Network Error"
    /\ showCreateForm
    /\ screen = "login"

\* C28: once the effect has run and no load is in flight, loading is false and
\* the error is non-null exactly when the most recently completed load
\* failed; starting a load clears the error and needs an authenticated email;
\* a failed load leaves the ticket list unchanged.
C28_LoadStateConsistent ==
    /\ []((appPc = "mounted" /\ effectEmail # "not run" /\ pendingLoads = 0) =>
            /\ ~loading
            /\ appError # NoAppError <=> lastLoad = "failed")
    /\ [][pendingLoads' > pendingLoads =>
            /\ appError' = NoAppError
            /\ EmailOf(authUser) # Undefined]_vars
    /\ [][(pendingLoads' < pendingLoads /\ lastLoad' = "failed") =>
            allTickets' = allTickets]_vars

\* ---------------------------------------------------------------------
\* IssueDetails (src/src/components/IssueDetails.js:13-117)
\* ---------------------------------------------------------------------

MaxDetailLoads == 3
MaxResolutions == 2

TicketKeys == {"A", "B"}
DetailErrors == {"Network Error"}
ResolutionComments == {<<>>, <<" ">>, <<"o", "k">>}

\* a ticket as the list gives it, and the answer of fetchTicketDetails
BasicTicket(k) == [key |-> k, detailed |-> FALSE]
Details(k) == [key |-> k, detailed |-> TRUE]

UpstreamCall(name, k) == [name |-> name, key |-> k]
CallNames(calls) == [i \in 1..Len(calls) |-> calls[i].name]
Resolutions == Cardinality({i \in 1..Len(resolveCalls) :
                                resolveCalls[i].name = "fetchIssueTransitions"})
PendingLoads == {i \in 1..Len(detailLoads) : detailLoads[i].state = "pending"}

DetailInit ==
    \* mounted by App with a selected ticket; the effect has started the load
    /\ ticketProp \in TicketKeys
    /\ detailedTicket = BasicTicket(ticketProp)
    /\ detailLoading = TRUE
    /\ detailError = NoDetailError
    /\ detailLoads = <<[key |-> ticketProp, state |-> "pending"]>>
    /\ awaitedLoad = 0
    /\ resolvePc = "idle"
    /\ resolving = FALSE
    /\ resolutionComment = <<>>
    /\ showResolveModal = FALSE
    /\ resolveCalls = <<>>
    /\ ticketResolved = {}
    /\ resolutionPosted = {}
    /\ alerted = ""
    \* the other parts of the model are not running
    /\ pc = "off" /\ fetchAll = FALSE /\ allIssues = <<>> /\ nextPageToken = NoToken
    /\ isLast = FALSE /\ requests = <<>> /\ responses = <<>> /\ failure = NoError
    /\ resStatus = 0 /\ resBody = NoBody
    /\ adfPc = "off" /\ text = <<>> /\ adfDocument = NoDocument /\ plainText = <<>>
    /\ commentPc = "off" /\ comment = NoComment /\ isInternal = FALSE
    /\ commentType = ""
    /\ labelDone = {} /\ email = <<>> /\ label = <<>> /\ userLabels = <<>>
    /\ labelReq = <<>>
    /\ proxyPc = "off" /\ proxyRoute = "" /\ reqBody = NoRequestBody /\ credentials = {}
    /\ upstreamCalls = 0 /\ upstreamAnswer = NoAnswer /\ proxyStatus = 0
    /\ proxyBody = NoBody
    /\ retryPc = "off" /\ apiCall = NoApiCall /\ retries = 0 /\ attempts = 0
    /\ delays = <<>> /\ fetchFailures = <<>> /\ outcome = NoOutcome
    /\ delivered = 0
    /\ appPc = "off" /\ authLoading = FALSE /\ authUser = NoUser /\ loading = FALSE
    /\ appError = NoAppError /\ showCreateForm = FALSE /\ selectedTicket = 0
    /\ pendingLoads = 0 /\ effectEmail = Undefined /\ screen = ""
    /\ allTickets = <<>> /\ lastLoad = "none"
    /\ relPc = "off" /\ dateInput = NoDate /\ relativeDate = NoRelativeDate
    /\ dashPc = "off" /\ dashboardTickets = <<>> /\ filter = "" /\ searchTerm = ""
    /\ displayedTickets = <<>>

\* loadTicketDetails up to its await, for the ticket k of the closure
LoadTicketDetails(k) ==
    /\ detailLoading' = TRUE
    /\ detailError' = NoDetailError
    /\ detailLoads' = Append(detailLoads, [key |-> k, state |-> "pending"])

ResolutionEndsStillResolving ==
    /\ resolving' = resolving
    /\ resolvePc' = "idle"

\* the finally block of confirmResolution
ResolutionEnds ==
    /\ resolving' = FALSE
    /\ resolvePc' = "idle"

\* the catch block of confirmResolution
ResolutionFails(message) ==
    /\ alerted' = "Erro ao resolver ticket: " \o message
    /\ ResolutionEnds

\* App.handleTicketClick with another ticket: the prop changes and the
\* effect calls the new loadTicketDetails
SelectTicket ==
    /\ resolvePc = "idle"
    /\ Len(detailLoads) < MaxDetailLoads
    /\ \E k \in TicketKeys \ {ticketProp} :
        /\ ticketProp' = k
        /\ LoadTicketDetails(k)
    /\ UNCHANGED <<detailedTicket, awaitedLoad, resolvePc, resolving,
                   resolutionComment, showResolveModal, resolveCalls,
                   ticketResolved, resolutionPosted, alerted>>
    /\ UNCHANGED nonDetailVars

\* what follows the await of loadTicketDetails in confirmResolution
AfterAwaitedLoad(i) ==
    IF awaitedLoad = i
    THEN /\ awaitedLoad' = 0
         /\ ResolutionEnds
    ELSE UNCHANGED <<awaitedLoad, resolving, resolvePc>>

\* fetchTicketDetails resolves
DetailFetchSucceeds ==
    /\ resolvePc # "off"
    /\ \E i \in PendingLoads :
        /\ detailedTicket' = Details(detailLoads[i].key)
        /\ detailLoading' = FALSE
        /\ detailLoads' = [detailLoads EXCEPT ![i].state = "ok"]
        /\ AfterAwaitedLoad(i)
    /\ UNCHANGED <<ticketProp, detailError, resolutionComment, showResolveModal,
                   resolveCalls, ticketResolved, resolutionPosted, alerted>>
    /\ UNCHANGED nonDetailVars

\* fetchTicketDetails rejects
DetailFetchFails ==
    /\ resolvePc # "off"
    /\ \E i \in PendingLoads : \E message \in DetailErrors :
        /\ detailError' = message
        /\ detailedTicket' = BasicTicket(detailLoads[i].key)
        /\ detailLoading' = FALSE
        /\ detailLoads' = [detailLoads EXCEPT ![i].state = "failed"]
        /\ AfterAwaitedLoad(i)
    /\ UNCHANGED <<ticketProp, resolutionComment, showResolveModal,
                   resolveCalls, ticketResolved, resolutionPosted, alerted>>
    /\ UNCHANGED nonDetailVars

HandleResolveClick ==
    /\ resolvePc = "idle"
    /\ ~showResolveModal
    /\ showResolveModal' = TRUE
    /\ UNCHANGED <<ticketProp, detailedTicket, detailLoading, detailError,
                   detailLoads, awaitedLoad, resolvePc, resolving,
                   resolutionComment, resolveCalls, ticketResolved,
                   resolutionPosted, alerted>>
    /\ UNCHANGED nonDetailVars

\* the textarea of the modal, disabled while resolving
TypeResolutionComment ==
    /\ showResolveModal
    /\ ~resolving
    /\ resolvePc = "idle"
    /\ \E c \in ResolutionComments \ {resolutionComment} :
        resolutionComment' = c
    /\ UNCHANGED <<ticketProp, detailedTicket, detailLoading, detailError,
                   detailLoads, awaitedLoad, resolvePc, resolving,
                   showResolveModal, resolveCalls, ticketResolved,
                   resolutionPosted, alerted>>
    /\ UNCHANGED nonDetailVars

\* the close button of the modal
CloseResolveModal ==
    /\ resolvePc # "off"
    /\ showResolveModal
    /\ showResolveModal' = FALSE
    /\ UNCHANGED <<ticketProp, detailedTicket, detailLoading, detailError,
                   detailLoads, awaitedLoad, resolvePc, resolving,
                   resolutionComment, resolveCalls, ticketResolved,
                   resolutionPosted, alerted>>
    /\ UNCHANGED nonDetailVars

\* confirmResolution up to its first await
ConfirmResolution ==
    /\ resolvePc = "idle"
    /\ showResolveModal
    /\ Resolutions < MaxResolutions
    /\ IF ~TrimTruthy(resolutionComment)
       THEN /\ alerted' = "Por favor, adicione um comentário de resolução."
            /\ UNCHANGED <<resolvePc, resolving, resolveCalls>>
       ELSE /\ resolving' = TRUE
            /\ resolvePc' = "listing"
            /\ resolveCalls' = Append(resolveCalls,
                    UpstreamCall("fetchIssueTransitions", ticketProp))
            /\ UNCHANGED alerted
    /\ UNCHANGED <<ticketProp, detailedTicket, detailLoading, detailError,
                   detailLoads, awaitedLoad, resolutionComment,
                   showResolveModal, ticketResolved, resolutionPosted>>
    /\ UNCHANGED nonDetailVars

\* fetchIssueTransitions resolves, with or without a resolving transition
TransitionsListed ==
    /\ resolvePc = "listing"
    /\ \E found \in BOOLEAN :
        IF found
        THEN /\ resolvePc' = "transitioning"
             /\ resolveCalls' = Append(resolveCalls,
                    UpstreamCall("transitionIssue", ticketProp))
             /\ UNCHANGED <<resolving, alerted>>
        ELSE /\ ResolutionFails("Transição de resolução não encontrada para este ticket.")
             /\ UNCHANGED resolveCalls
    /\ UNCHANGED <<ticketProp, detailedTicket, detailLoading, detailError,
                   detailLoads, awaitedLoad, resolutionComment,
                   showResolveModal, ticketResolved, resolutionPosted>>
    /\ UNCHANGED nonDetailVars

\* fetchIssueTransitions rejects
ListingFails ==
    /\ resolvePc = "listing"
    /\ \E message \in DetailErrors : ResolutionFails(message)
    /\ UNCHANGED <<ticketProp, detailedTicket, detailLoading, detailError,
                   detailLoads, awaitedLoad, resolutionComment,
                   showResolveModal, resolveCalls, ticketResolved,
                   resolutionPosted>>
    /\ UNCHANGED nonDetailVars

\* transitionIssue resolves: Jira moved the ticket; addComment is called
TransitionSucceeds ==
    /\ resolvePc = "transitioning"
    /\ ticketResolved' = ticketResolved \cup {ticketProp}
    /\ resolvePc' = "commenting"
    /\ resolveCalls' = Append(resolveCalls, UpstreamCall("addComment", ticketProp))
    /\ UNCHANGED <<ticketProp, detailedTicket, detailLoading, detailError,
                   detailLoads, awaitedLoad, resolving, resolutionComment,
                   showResolveModal, resolutionPosted, alerted>>
    /\ UNCHANGED nonDetailVars

\* transitionIssue rejects
TransitionFails ==
    /\ resolvePc = "transitioning"
    /\ \E message \in DetailErrors : ResolutionFails(message)
    /\ UNCHANGED <<ticketProp, detailedTicket, detailLoading, detailError,
                   detailLoads, awaitedLoad, resolutionComment,
                   showResolveModal, resolveCalls, ticketResolved,
                   resolutionPosted>>
    /\ UNCHANGED nonDetailVars

\* addComment resolves: the modal is reset and the details are reloaded
ResolutionCommentAdded ==
    /\ resolvePc = "commenting"
    /\ resolutionPosted' = resolutionPosted \cup {ticketProp}
    /\ resolutionComment' = <<>>
    /\ showResolveModal' = FALSE
    /\ resolveCalls' = Append(resolveCalls,
            UpstreamCall("fetchTicketDetails", ticketProp))
    /\ LoadTicketDetails(ticketProp)
    /\ awaitedLoad' = Len(detailLoads) + 1
    /\ resolvePc' = "reloading"
    /\ UNCHANGED <<ticketProp, detailedTicket, resolving, ticketResolved, alerted>>
    /\ UNCHANGED nonDetailVars

\* addComment rejects
ResolutionCommentFails ==
    /\ resolvePc = "commenting"
    /\ \E message \in DetailErrors : ResolutionFails(message)
    /\ UNCHANGED <<ticketProp, detailedTicket, detailLoading, detailError,
                   detailLoads, awaitedLoad, resolutionComment,
                   showResolveModal, resolveCalls, ticketResolved,
                   resolutionPosted>>
    /\ UNCHANGED nonDetailVars

DetailNext ==
    \/ SelectTicket
    \/ DetailFetchSucceeds
    \/ DetailFetchFails
    \/ HandleResolveClick
    \/ TypeResolutionComment
    \/ CloseResolveModal
    \/ ConfirmResolution
    \/ TransitionsListed
    \/ ListingFails
    \/ TransitionSucceeds
    \/ TransitionFails
    \/ ResolutionCommentAdded
    \/ ResolutionCommentFails

SpecDetail == DetailInit /\ [][DetailNext]_vars

\* C22: when the detailed fetch for the selected ticket fails the view shows
\* the basic ticket of the ticket prop, stores the failure message and ends
\* with loading false; when it succeeds the details replace the ticket, no
\* error is set and loading is false.
C22_LoadOutcome ==
    [][\A i \in PendingLoads :
        detailLoads[i].key = ticketProp =>
            /\ detailLoads'[i].state = "failed" =>
                  /\ detailedTicket' = BasicTicket(ticketProp)
                  /\ detailError' \in DetailErrors
                  /\ ~detailLoading'
            /\ detailLoads'[i].state = "ok" =>
                  /\ detailedTicket' = Details(ticketProp)
                  /\ detailError' = NoDetailError
                  /\ ~detailLoading']_vars

\* C25: confirmResolution calls, in this order, fetchIssueTransitions,
\* transitionIssue, addComment and fetchTicketDetails and stops at the first
\* step that fails: it makes no call for a blank comment, no transition when
\* none was found, no comment unless the transition succeeded, and resolving
\* is false once it has ended.
C25_ResolutionSteps ==
    /\ [](LET names == CallNames(resolveCalls)
          IN /\ names # <<>> => names[1] = "fetchIssueTransitions"
             /\ \A i \in 1..Len(names) :
                  /\ names[i] = "transitionIssue" =>
                        (i > 1 /\ names[i-1] = "fetchIssueTransitions")
                  /\ names[i] = "addComment" =>
                        /\ i > 1 /\ names[i-1] = "transitionIssue"
                        /\ resolveCalls[i].key \in ticketResolved
                  /\ names[i] = "fetchTicketDetails" =>
                        /\ i > 1 /\ names[i-1] = "addComment"
                        /\ resolveCalls[i].key \in resolutionPosted
             /\ resolving <=> resolvePc # "idle")
    /\ [][~TrimTruthy(resolutionComment) => resolveCalls' = resolveCalls]_vars
    /\ [][(resolvePc # "idle" /\ alerted' # alerted) =>
             /\ resolveCalls' = resolveCalls
             /\ ticketResolved' = ticketResolved
             /\ resolutionPosted' = resolutionPosted
             /\ resolvePc' = "idle"
             /\ ~resolving']_vars
    /\ [][Len(resolveCalls') > Len(resolveCalls) =>
             \/ resolvePc = "idle" /\ resolvePc' = "listing"
             \/ resolvePc = "listing" /\ resolvePc' = "transitioning"
             \/ resolvePc = "transitioning" /\ resolvePc' = "commenting"
             \/ resolvePc = "commenting" /\ resolvePc' = "reloading"]_vars

C25_Witness ==
    /\ resolvePc = "idle"
    /\ ~resolving
    /\ CallNames(resolveCalls) = <<"fetchIssueTransitions", "transitionIssue",
                                   "addComment", "fetchTicketDetails">>
    /\ resolutionPosted = {ticketProp}

\* C26: once confirmResolution has ended, the ticket was transitioned exactly
\* when the resolution comment was posted.
C26_ResolutionAllOrNothing ==
    resolvePc = "idle" => ticketResolved = resolutionPosted

\* C27: whenever no detail fetch is in flight, the ticket displayed has the
\* key of the currently selected ticket.
C27_DisplayedTicketIsSelected ==
    (resolvePc # "off" /\ PendingLoads = {}) => detailedTicket.key = ticketProp

\* ---------------------------------------------------------------------
\* formatRelativeDate (src/src/api/jira.js:1163-1203)
\* ---------------------------------------------------------------------

MaxElapsedDays == 400

SecondsPerDay == 24 * 60 * 60

\* distances within a day in seconds, around the limits of the units
DayOffsets == {0, 59, 60, 3599, 3600, 7200, SecondsPerDay - 1}

\* now - date, for dates in the past and in the future: diffMs is
\* sec * 1000 + ms with 0 <= ms < 1000
ElapsedSeconds ==
    {days * SecondsPerDay + offset : days \in 0..MaxElapsedDays, offset \in DayOffsets}
    \cup {-1, -60, -SecondsPerDay}

DateInputs ==
    {[kind |-> "date", sec |-> s, ms |-> m] : s \in ElapsedSeconds, m \in {0, 999}}
    \cup {[kind |-> "invalid", sec |-> 0, ms |-> 0],
          [kind |-> "empty", sec |-> 0, ms |-> 0]}

\* Math.floor(diffMs / 1000)
DiffSec(input) == input.sec

Now == [phrase |-> "agora mesmo", count |-> 0, unit |-> ""]
Ago(quantity, singular, plural) ==
    [phrase |-> "há", count |-> quantity,
     unit |-> IF quantity = 1 THEN singular ELSE plural]
EmptyText == [phrase |-> "", count |-> 0, unit |-> ""]

FormatRelativeDate(input) ==
    IF input.kind \in {"empty", "invalid"} THEN EmptyText
    ELSE LET diffSec == DiffSec(input)
             diffMin == diffSec \div 60
             diffHour == diffMin \div 60
             diffDay == diffHour \div 24
             diffWeek == diffDay \div 7
             diffMonth == diffDay \div 30
             diffYear == diffDay \div 365
         IN IF diffSec < 60 THEN Now
            ELSE IF diffMin < 60 THEN Ago(diffMin, "minuto", "minutos")
            ELSE IF diffHour < 24 THEN Ago(diffHour, "hora", "horas")
            ELSE IF diffDay < 7 THEN Ago(diffDay, "dia", "dias")
            ELSE IF diffWeek < 4 THEN Ago(diffWeek, "semana", "semanas")
            ELSE IF diffMonth < 12 THEN Ago(diffMonth, "mês", "meses")
            ELSE Ago(diffYear, "ano", "anos")

RelativeInit ==
    /\ relPc = "input"
    /\ dateInput \in DateInputs
    /\ relativeDate = NoRelativeDate
    \* the other parts of the model are not running
    /\ pc = "off" /\ fetchAll = FALSE /\ allIssues = <<>> /\ nextPageToken = NoToken
    /\ isLast = FALSE /\ requests = <<>> /\ responses = <<>> /\ failure = NoError
    /\ resStatus = 0 /\ resBody = NoBody
    /\ adfPc = "off" /\ text = <<>> /\ adfDocument = NoDocument /\ plainText = <<>>
    /\ commentPc = "off" /\ comment = NoComment /\ isInternal = FALSE
    /\ commentType = ""
    /\ labelDone = {} /\ email = <<>> /\ label = <<>> /\ userLabels = <<>>
    /\ labelReq = <<>>
    /\ proxyPc = "off" /\ proxyRoute = "" /\ reqBody = NoRequestBody /\ credentials = {}
    /\ upstreamCalls = 0 /\ upstreamAnswer = NoAnswer /\ proxyStatus = 0
    /\ proxyBody = NoBody
    /\ retryPc = "off" /\ apiCall = NoApiCall /\ retries = 0 /\ attempts = 0
    /\ delays = <<>> /\ fetchFailures = <<>> /\ outcome = NoOutcome
    /\ delivered = 0
    /\ appPc = "off" /\ authLoading = FALSE /\ authUser = NoUser /\ loading = FALSE
    /\ appError = NoAppError /\ showCreateForm = FALSE /\ selectedTicket = 0
    /\ pendingLoads = 0 /\ effectEmail = Undefined /\ screen = ""
    /\ allTickets = <<>> /\ lastLoad = "none"
    /\ resolvePc = "off" /\ ticketProp = "" /\ detailedTicket = NoTicket /\ detailLoading = FALSE
    /\ detailError = NoDetailError /\ detailLoads = <<>> /\ awaitedLoad = 0
    /\ resolving = FALSE /\ resolutionComment = <<>> /\ showResolveModal = FALSE
    /\ resolveCalls = <<>> /\ ticketResolved = {} /\ resolutionPosted = {}
    /\ alerted = ""
    /\ dashPc = "off" /\ dashboardTickets = <<>> /\ filter = "" /\ searchTerm = ""
    /\ displayedTickets = <<>>

CallFormatRelativeDate ==
    /\ relPc = "input"
    /\ relativeDate' = FormatRelativeDate(dateInput)
    /\ relPc' = "returned"
    /\ UNCHANGED dateInput
    /\ UNCHANGED nonRelativeVars

RelativeNext == CallFormatRelativeDate

SpecRelative == RelativeInit /\ [][RelativeNext]_vars

\* C30: an elapsed time of at least 60 seconds is reported with a quantity of
\* at least 1 in the unit chosen; an elapsed time below 60 seconds, a date in
\* the future included, is reported as 'agora mesmo'.
C30_QuantityAtLeastOne ==
    (relPc = "returned" /\ dateInput.kind = "date") =>
        IF dateInput.sec < 60
        THEN relativeDate = Now
        ELSE relativeDate.phrase = "há" /\ relativeDate.count >= 1

\* ---------------------------------------------------------------------
\* Dashboard (src/src/components/Dashboard.js:546-626)
\* ---------------------------------------------------------------------

MaxTickets == 2

MAX_DISPLAYED_TICKETS == 50

\* status names of the tickets of the model and what isClosedStatus and
\* isInProgressStatus (lower case, includes) answer for them
StatusNames == {"To Do", "In Progress", "Done", Undefined}
IsClosedStatus(statusName) == statusName \in {"Done"}
IsInProgressStatus(statusName) == statusName \in {"In Progress"}

\* a ticket: its status name, whether its reporter is the user, and the
\* letters of its key, summary and reporter
DashboardTickets ==
    [status : StatusNames, mine : BOOLEAN, letters : {{"t"}, {"s"}}]

SearchTerms == {"", " ", "t"}
Filters == {"my_open", "team_open", "in_progress", "closed", "all"}

RECURSIVE TicketListsUpTo(_)
TicketListsUpTo(n) ==
    IF n = 0 THEN {<<>>}
    ELSE LET shorter == TicketListsUpTo(n - 1)
         IN shorter \cup {Append(l, t) : l \in shorter, t \in DashboardTickets}

\* lists around the display limit, of one ticket repeated
LongTicketLists ==
    {[i \in 1..n |-> t] : n \in (MAX_DISPLAYED_TICKETS - 1)..(MAX_DISPLAYED_TICKETS + 2),
                          t \in DashboardTickets}

\* statistics.openTickets and statistics.myOpenTickets
OpenTickets(tickets) ==
    LET Open(t) == ~IsClosedStatus(t.status)
    IN SelectSeq(tickets, Open)

MyOpenTickets(tickets) ==
    LET MyOpen(t) == t.mine /\ ~IsClosedStatus(t.status)
    IN SelectSeq(tickets, MyOpen)

\* tickets.slice(0, n)
Slice(tickets, n) == SubSeq(tickets, 1, IF Len(tickets) < n THEN Len(tickets) ELSE n)

DisplayLimit(tickets) == Slice(tickets, MAX_DISPLAYED_TICKETS)

DisplayedTickets(tickets, f, term) ==
    LET chosen == CASE f = "team_open" -> OpenTickets(tickets)
                    [] f = "all" -> tickets
                    [] OTHER -> MyOpenTickets(tickets)
        Matches(t) == term \in t.letters
        found == IF term \notin {"", " "}
                 THEN SelectSeq(chosen, Matches)
                 ELSE chosen
    IN DisplayLimit(found)

DashboardInit ==
    /\ dashPc = "mounted"
    /\ dashboardTickets \in TicketListsUpTo(MaxTickets) \cup LongTicketLists
    /\ filter = "my_open"
    /\ searchTerm = ""
    /\ displayedTickets = DisplayedTickets(dashboardTickets, "my_open", "")
    \* the other parts of the model are not running
    /\ pc = "off" /\ fetchAll = FALSE /\ allIssues = <<>> /\ nextPageToken = NoToken
    /\ isLast = FALSE /\ requests = <<>> /\ responses = <<>> /\ failure = NoError
    /\ resStatus = 0 /\ resBody = NoBody
    /\ adfPc = "off" /\ text = <<>> /\ adfDocument = NoDocument /\ plainText = <<>>
    /\ commentPc = "off" /\ comment = NoComment /\ isInternal = FALSE
    /\ commentType = ""
    /\ labelDone = {} /\ email = <<>> /\ label = <<>> /\ userLabels = <<>>
    /\ labelReq = <<>>
    /\ proxyPc = "off" /\ proxyRoute = "" /\ reqBody = NoRequestBody /\ credentials = {}
    /\ upstreamCalls = 0 /\ upstreamAnswer = NoAnswer /\ proxyStatus = 0
    /\ proxyBody = NoBody
    /\ retryPc = "off" /\ apiCall = NoApiCall /\ retries = 0 /\ attempts = 0
    /\ delays = <<>> /\ fetchFailures = <<>> /\ outcome = NoOutcome
    /\ delivered = 0
    /\ appPc = "off" /\ authLoading = FALSE /\ authUser = NoUser /\ loading = FALSE
    /\ appError = NoAppError /\ showCreateForm = FALSE /\ selectedTicket = 0
    /\ pendingLoads = 0 /\ effectEmail = Undefined /\ screen = ""
    /\ allTickets = <<>> /\ lastLoad = "none"
    /\ resolvePc = "off" /\ ticketProp = "" /\ detailedTicket = NoTicket /\ detailLoading = FALSE
    /\ detailError = NoDetailError /\ detailLoads = <<>> /\ awaitedLoad = 0
    /\ resolving = FALSE /\ resolutionComment = <<>> /\ showResolveModal = FALSE
    /\ resolveCalls = <<>> /\ ticketResolved = {} /\ resolutionPosted = {}
    /\ alerted = ""
    /\ relPc = "off" /\ dateInput = NoDate /\ relativeDate = NoRelativeDate

\* handleFilterMyOpen, handleFilterTeamOpen, handleFilterInProgress,
\* handleFilterClosed, handleFilterAll
HandleFilter ==
    /\ dashPc = "mounted"
    /\ \E f \in Filters \ {filter} :
        /\ filter' = f
        /\ displayedTickets' = DisplayedTickets(dashboardTickets, f, searchTerm)
    /\ UNCHANGED <<dashPc, dashboardTickets, searchTerm>>
    /\ UNCHANGED nonDashboardVars

\* onChange of the search box
SetSearchTerm ==
    /\ dashPc = "mounted"
    /\ \E term \in SearchTerms \ {searchTerm} :
        /\ searchTerm' = term
        /\ displayedTickets' = DisplayedTickets(dashboardTickets, filter, term)
    /\ UNCHANGED <<dashPc, dashboardTickets, filter>>
    /\ UNCHANGED nonDashboardVars

DashboardNext ==
    \/ HandleFilter
    \/ SetSearchTerm

SpecDashboard == DashboardInit /\ [][DashboardNext]_vars

====
